---------------------------- MODULE Spec2Model ----------------------------
(***************************************************************************)
(* A model of netschoolpy's client (src/netschoolpy/client.py).            *)
(*                                                                         *)
(*   Spec         the NetSchool client: its Session and the login          *)
(*                procedures, one action per awaited call or handler step  *)
(*   SpecResolve  the Branch-Step Resolver: _esia_resolve_login_response   *)
(*                with the MFA handler, the anomaly handler, the push      *)
(*                poll and the post-MFA step driver, one action per        *)
(*                handler step, the broker's answers drawn from Bodies     *)
(*                                                                         *)
(* Values the portal or the broker issue during one login call (tokens,    *)
(* ids, cookie values) are the number g of that call: fresh in every call. *)
(* Python strings are TLA+ strings; a formatted message is the sequence of *)
(* its parts, and a substring test looks for a part.                       *)
(***************************************************************************)
EXTENDS Integers, Sequences, FiniteSets, TLC

\* ------------------------------------------------------------- bounds
MaxOps == 2
MaxDepth == 1
MaxUrlFields == 2
MaxLines == 2
SseTimeout == 2
MaxCookies == 3
MaxUsers == 2
MaxPrompts == 2
MaxTimeout == 2
MaxLifeOps == 2
MaxCookieLen == 6
MaxEntries == 2
MaxPings == 2
MaxQueryLen == 3

\* ------------------------------------------------------ program constants
max_qr_retries == 5
PostMfaMaxSteps == 10
push_max_wait == 120
push_interval == 3
crosslogin_hops == 20
callback_hops == 15
DEFAULT_TIMEOUT == 5
max_5xx_retries == 3
session_id_digits == 32

VARIABLES
  \* --- the Session (NetSchool.__init__)
  access_token,      \* self._access_token: 0 is None
  at_header,         \* the `at` header of self._http: 0 is absent
  student_id,        \* self._student_id
  year_id,           \* self._year_id
  school_id,         \* self._school_id
  assignment_types,  \* self._assignment_types: the set of type ids loaded
  credentials,       \* self._credentials: <<>> or <<user, password, school>>
  cookies,           \* the main cookie jar self._http.client.cookies: <<name, value>>
  keepalive_task,    \* self._keepalive_task is not None
  \* --- the login call in progress
  op,                \* the procedure running, "none" between calls
  pc,                \* its position
  g,                 \* the value the servers issue during this call: its number
  school_arg,        \* the `school` argument: "int", "str" or "none"
  payload,           \* the `data` argument of import_session: a JSON text
  err,               \* the exception the call raised: [type, msg]
  pre,               \* the Session when the call started
  ops,               \* login calls started so far
  \* --- the external identity session of a federated login
  esia_open,         \* inside `async with httpx.AsyncClient(...) as esia_client`
  esia_cookies,      \* esia_client.cookies: <<name, domain, value>>
  login_state,       \* the loginState extracted by the callback walk, 0 is None
  copies,            \* times cookies were copied from esia_client into the main jar
  \* --- the QR exchange loop of login_via_gosuslugi_qr
  qr_attempt,        \* the loop variable
  gens,              \* the answers of /qr/generate so far
  shown,             \* the deep-links handed to qr_callback (or stdout)
  subs,              \* the qr_ids a subscription was opened for
  clears,            \* esia_client.cookies.clear() calls
  walks,             \* _esia_crosslogin calls
  crosslogin_end,    \* where the last of them ended: none, broker, elsewhere, error
  sse_err,           \* `e`: the ESIAError the listener raised last, NoErr when it returned
  \* --- the Branch-Step Resolver
  rpc,               \* the handler running
  data,              \* the `login_data` / `data` / `result` of the running handler
  iter,              \* iterations completed by the running step driver
  stack,             \* step drivers suspended in `await self._handle_esia_anomaly`
  polls,             \* poll requests sent by _poll_esia_push
  waited,            \* seconds _poll_esia_push has slept
  step_requests,     \* what the latest pass of the post-MFA step driver sent
  tried_urls,        \* `tried_urls` as the "no endpoint" error reports it (909-913)
  requested,         \* whether a broker request was sent during this resolution
  result,            \* the value returned to the orchestrator
  ret_from,          \* the handler whose return statement produced it
  rerr,              \* the exception raised: [type, msg]
  \* --- the Streaming Event Listener (_poll_esia_qr_sse)
  sse_pc,            \* its position: off, connect, send, read, done
  stream,            \* the bytes the server sends on the connection
  ending,            \* what follows them: the server closes, or stays silent
  delivered,         \* how many of them reader.read has handed over
  buffer,            \* `buffer`
  writer,            \* the raw connection: none, open, closed
  elapsed,           \* time since the first reader.read was awaited
  cut_in_data,       \* a read ended inside a `data:` line
  outcome,           \* how the listener ended: [ret, exc]
  \* --- the Redirect-Chain Walker (_esia_crosslogin, _esia_callback_to_login_state)
  walk_pc,           \* its position: off, logindata, hop, done
  walker,            \* which of the two walkers runs
  walk_url,          \* `url`: [host, path, ls], ls the loginState in its query, 0 for none
  hops,              \* chain requests sent
  target,            \* where the server has sent the client
  sent,              \* the cookie names the server has set during the walk
  rel_seen,          \* a relative `location` was followed
  ended,             \* how the loop ended: "break" or "bound"
  walk_out,          \* what the walker returned or raised: [ret, exc]
  \* --- the Organization Picker (_pick_esia_user)
  pick_pc,           \* its position: off, call, input, done
  users,             \* `users`: the candidates of account-info
  school_hint,       \* `school`: [given, text], not given is None
  prompts,           \* input() calls so far
  picked,            \* the index of the candidate returned, 0 for none
  pick_err,          \* the exception raised
  \* --- the export/import round trip
  exporter,          \* the Session of the client export_session() was called on
  \* --- one HttpSession request (_send)
  send_pc,           \* its position: off, call, try, sleep, done
  nap,               \* the asyncio.sleep in progress, in tenths of a second
  session_timeout,   \* HttpSession(timeout=...): [given, v], not given is None
  call_timeout,      \* the `timeout` of the call: [given, v]
  effective,         \* `effective`, in seconds
  retry_5xx,         \* `retry_5xx`
  clock,             \* tenths of a second since wait_for started
  sent4,             \* sends answered with a 4xx status
  sent5,             \* sends answered with a 5xx status
  send_out,          \* what the request returned or raised: [ret, exc]
  \* --- the keep-alive tasks of the client
  tasks,             \* tasks created by _start_keepalive and not cancelled
  starts,            \* loop.create_task calls so far
  logged_out,        \* logout() or close() completed and no login succeeded since
  \* --- the life of the client between logins
  keepalive_interval,\* self._keepalive_interval
  http_closed,       \* self._http.close() was awaited
  life_ops,          \* logout, close, set_keepalive_interval and authed calls so far
  life_last,         \* the last of them
  life_out,          \* what logout() or close() raised
  authed_pc,         \* the authed call: off, relogin, done
  authed_creds,      \* self._credentials when it was called
  first_answer,      \* the status of its first send, 0 for ServerUnavailable
  relogins,          \* login() calls it made
  resends,           \* re-sends it made
  resend_answer,     \* the status of the re-send
  authed_out,        \* what it returned or raised: [ret, exc]
  \* --- one call of a procedure that starts with a static helper
  call_pc,           \* its position: off, call, request, done
  helper_arg,        \* the text it was given
  helper_ret,        \* what the helper returned
  call_err,          \* the exception the procedure raised
  requests,          \* requests it sent
  \* --- the keep-alive loop
  ping_log,          \* what its GET context calls were answered, in order
  \* --- the credentials post of login_via_gosuslugi
  posts,             \* POSTs of login and password during this call
  failed_code        \* the `failed` field of the answer, "" when absent

sessVars == <<access_token, at_header, student_id, year_id, school_id,
              assignment_types, credentials, cookies, keepalive_task>>
callVars == <<op, pc, g, school_arg, payload, err, pre, ops>>
esiaVars == <<esia_open, esia_cookies, login_state, copies>>
qrVars == <<qr_attempt, gens, shown, subs, clears, walks, crosslogin_end, sse_err>>
resVars == <<rpc, data, iter, stack, polls, waited, step_requests, tried_urls,
            requested,
             result, ret_from, rerr>>
sseVars == <<sse_pc, stream, ending, delivered, buffer, writer, elapsed,
             cut_in_data, outcome>>
walkVars == <<walk_pc, walker, walk_url, hops, target, sent, rel_seen, ended, walk_out>>
pickVars == <<pick_pc, users, school_hint, prompts, picked, pick_err>>
tripVars == <<exporter>>
sendVars == <<send_pc, nap, session_timeout, call_timeout, effective, retry_5xx, clock,
              sent4, sent5, send_out>>
lifeVars == <<keepalive_interval, http_closed, life_ops, life_last, life_out>>
authedVars == <<authed_pc, authed_creds, first_answer, relogins, resends, resend_answer, authed_out>>
helperVars == <<call_pc, helper_arg, helper_ret, call_err, requests>>
pingVars == <<ping_log>>
lateVars == <<sendVars, lifeVars, authedVars, helperVars, pingVars>>
restVars == <<sseVars, walkVars, pickVars, tripVars, lateVars>>
kaVars == <<tasks, starts, logged_out>>
postVars == <<posts, failed_code>>
auxVars == <<restVars, kaVars, postVars>>
progVars == <<sessVars, callVars, esiaVars, qrVars, resVars>>
vars == <<progVars, auxVars>>

\* ------------------------------------------------------------ exceptions
NoErr == [type |-> "none", msg |-> <<>>]
Exc(t, m) == [type |-> t, msg |-> m]

\* `part in str(e)` for a message kept as the sequence of its parts
Contains(m, part) == \E i \in 1..Len(m) : m[i] = part

\* what an awaited self._http call can raise (HttpSession._send)
HttpErrors == {"HTTPStatusError", "ServerUnavailable"}

\* -------------------------------------------------------------- Session
Session == [access_token |-> access_token, at_header |-> at_header,
            student_id |-> student_id, year_id |-> year_id,
            school_id |-> school_id, assignment_types |-> assignment_types,
            credentials |-> credentials, cookies |-> cookies]

\* HttpSession.set_cookie / httpx Cookies.set: one value per name
SetCookie(jar, name, value) == {c \in jar : c[1] # name} \cup {<<name, value>>}


\* set_cookie for every item of a name -> value dict (1400-1401, 1281-1282)
set_cookies(jar, items) ==
  {c \in jar : \A i \in items : i[1] # c[1]} \cup items

\* ------------------------------------------------- the exported JSON
\* A JSON text is [valid, members, cookies]: `valid` is whether json.loads
\* accepts it, `members` the <<key, kind, value>> of the top-level object
\* (kind "null", "str" or "num"), `cookies` its "cookies" object as
\* <<name, value>> pairs.
NoPayload == [valid |-> FALSE, members |-> {}, cookies |-> {}]

\* json.dumps of an access token: None becomes null
token_member(t) ==
  IF t = 0 THEN <<"access_token", "null", 0>> ELSE <<"access_token", "str", t>>

\* json.dumps of an int
num_member(k, n) == <<k, "num", n>>

\* export_session 1368-1377 for the client whose Session is ses
export_session(ses) ==
  [valid |-> TRUE,
   members |-> {num_member("version", 1), token_member(ses.access_token),
                num_member("student_id", ses.student_id),
                num_member("year_id", ses.year_id),
                num_member("school_id", ses.school_id)},
   cookies |-> ses.cookies]

\* `key in payload`
has_key(p, k) == \E m \in p.members : m[1] = k

\* json.loads of one member: null is None
member_value(m) == IF m[2] = "null" THEN 0 ELSE m[3]

\* payload[key] / payload.get(key, default)
payload_get(p, k, default) ==
  IF has_key(p, k) THEN member_value(CHOOSE m \in p.members : m[1] = k)
  ELSE default

\* the texts a caller hands to import_session: no JSON, an object without
\* a token, one holding only a token, or the export of a session whose
\* values are v
CallerPayloads(v) ==
  {NoPayload,
   [valid |-> TRUE, members |-> {num_member("version", 1)}, cookies |-> {}],
   [valid |-> TRUE, members |-> {token_member(v)}, cookies |-> {}]}
    \cup {export_session([access_token |-> v, student_id |-> v, year_id |-> v,
                          school_id |-> sid, cookies |-> {<<"NSSESSIONID", v>>}]) :
            sid \in {-1, v}}

\* variant of the handler that lets the failure of the init call through
session_expired_through(e) == e

\* lines 1291-1294, 1411-1414: `except Exception as e` raises SessionExpired
\* carrying str(e)
session_expired(e) == Exc("SessionExpired", e.msg)

\* exceptions.py 8-29: LoginError and its subclasses
IsLoginError(e) == e.type \in {"LoginError", "MFAError", "ESIAError", "SchoolNotFound"}

\* NetSchool._start_keepalive: cancels the running task, then creates one
start_keepalive(task) == TRUE

\* variant of _stop_keepalive that drops the handle without cancelling
stop_cancels_none(task) == 0

\* _stop_keepalive 1172-1176: the tasks it cancels
stop_cancels(task) == IF task THEN 1 ELSE 0

\* _stop_keepalive
StopKeepalive ==
  /\ keepalive_task' = FALSE
  /\ tasks' = tasks - stop_cancels(keepalive_task)
  /\ UNCHANGED starts

\* _start_keepalive 1161-1170; outside a running event loop (RuntimeError)
\* it only stops
StartKeepalive(in_loop) ==
  IF in_loop
  THEN /\ keepalive_task' = start_keepalive(keepalive_task)
       /\ tasks' = tasks - stop_cancels(keepalive_task) + 1
       /\ starts' = starts + 1
  ELSE StopKeepalive

\* the last statement of a login: it runs in the event loop, and the client
\* is logged in again
LoginStartsKeepalive == StartKeepalive(TRUE) /\ logged_out' = FALSE

\* ============================================ broker answers (JSON)
\* the redirect fields _extract_redirect_url reads, in its order
TopFields == <<"redirect_url", "redirectUrl", "redirectURL", "url", "redirect">>
NestedFields == <<"redirect_url", "redirectUrl", "redirectURL", "url">>

Range(f) == {f[i] : i \in DOMAIN f}

\* a JSON object of the broker: `top` and `nested` give each redirect field
\* its value, "" when the key is absent or empty; `nested` is read only when
\* the value of `data` is an object
Answer(a, top, isdict, nested, skip, mtype, failed) ==
  [action |-> a, top |-> top, data_is_dict |-> isdict, nested |-> nested,
   skippable |-> skip, mfa_type |-> mtype, failed |-> failed]

NoUrls(fields) == [f \in Range(fields) |-> ""]

\* an answer whose only redirect field is redirect_url
Body(a, url, skip, mtype, failed) ==
  Answer(a, [NoUrls(TopFields) EXCEPT !["redirect_url"] = url], FALSE,
         NoUrls(NestedFields), skip, mtype, failed)

NoBody == Body("", "", FALSE, "", FALSE)

\* `a or b or ...` over the fields in order: the first non-empty value
RECURSIVE first_truthy(_, _)
first_truthy(obj, fields) ==
  IF fields = <<>> THEN ""
  ELSE IF obj[Head(fields)] # "" THEN obj[Head(fields)]
       ELSE first_truthy(obj, Tail(fields))

\* variant of _extract_redirect_url that reads the top-level fields only
extract_redirect_url_top(ld) == first_truthy(ld.top, TopFields)

\* NetSchool._extract_redirect_url 220-238 ("" stands for None or empty)
extract_redirect_url(ld) ==
  LET direct == ld.top["redirect_url"]
      aliased == IF direct # "" THEN direct ELSE first_truthy(ld.top, Tail(TopFields))
  IN  IF aliased = "" /\ ld.data_is_dict
      THEN first_truthy(ld.nested, NestedFields)
      ELSE aliased

\* ---------------------------------------------------------------- Init
InitSession ==
  /\ access_token = 0 /\ at_header = 0
  /\ student_id = -1 /\ year_id = -1 /\ school_id = -1
  /\ assignment_types = {} /\ credentials = <<>> /\ cookies = {}
  /\ keepalive_task = FALSE

InitCall ==
  /\ op = "none" /\ pc = "idle" /\ g = 1 /\ school_arg = "none"
  /\ payload = NoPayload
  /\ err = NoErr /\ ops = 0
  /\ pre = [access_token |-> 0, at_header |-> 0, student_id |-> -1,
            year_id |-> -1, school_id |-> -1, assignment_types |-> {},
            credentials |-> <<>>, cookies |-> {}]

InitEsia ==
  /\ esia_open = FALSE /\ esia_cookies = {} /\ login_state = 0 /\ copies = 0

InitQr ==
  /\ qr_attempt = 0 /\ gens = <<>> /\ shown = <<>> /\ subs = <<>>
  /\ clears = 0 /\ walks = 0 /\ crosslogin_end = "none" /\ sse_err = NoErr

InitRes ==
  /\ rpc = "off" /\ data = NoBody
  /\ iter = 0 /\ stack = <<>> /\ polls = 0 /\ waited = 0 /\ tried_urls = <<>>
  /\ step_requests = <<>>
  /\ requested = FALSE
  /\ result = "" /\ ret_from = "" /\ rerr = NoErr

\* the listener has not ended
NoOutcome == [ret |-> <<>>, exc |-> NoErr]

\* no listener runs
InitSseOff ==
  /\ sse_pc = "off" /\ stream = <<>> /\ ending = "closed" /\ delivered = 0
  /\ buffer = <<>> /\ writer = "none" /\ elapsed = 0 /\ cut_in_data = FALSE
  /\ outcome = NoOutcome

\* no URL
NoUrl == [host |-> "", path |-> "", ls |-> 0]

\* no walker runs
InitWalkOff ==
  /\ walk_pc = "off" /\ walker = "crosslogin" /\ walk_url = NoUrl /\ hops = 0
  /\ target = NoUrl /\ sent = {} /\ rel_seen = FALSE /\ ended = ""
  /\ walk_out = [ret |-> NoUrl, exc |-> NoErr]

\* no picker runs
InitPickOff ==
  /\ pick_pc = "off" /\ users = <<>> /\ school_hint = [given |-> FALSE, text |-> <<>>]
  /\ prompts = 0 /\ picked = 0 /\ pick_err = NoErr

\* the Session NetSchool.__init__ leaves
FreshSession ==
  [access_token |-> 0, at_header |-> 0, student_id |-> -1,
   year_id |-> -1, school_id |-> -1, assignment_types |-> {},
   credentials |-> <<>>, cookies |-> {}]

\* no export was made
InitTripOff == exporter = FreshSession

\* a timeout argument that was not given
NoTimeout == [given |-> FALSE, v |-> 0]

\* no request runs
InitSendOff ==
  /\ send_pc = "off" /\ nap = 0 /\ session_timeout = NoTimeout /\ call_timeout = NoTimeout
  /\ effective = 0 /\ retry_5xx = 0 /\ clock = 0 /\ sent4 = 0 /\ sent5 = 0
  /\ send_out = [ret |-> 0, exc |-> NoErr]

\* __init__ 61-73: the interval is 300 seconds, the HTTP client is open and
\* no lifecycle call was made
InitLifeOff ==
  /\ keepalive_interval = 300 /\ http_closed = FALSE
  /\ life_ops = 0 /\ life_last = "none" /\ life_out = NoErr
  /\ authed_pc = "off" /\ authed_creds = <<>> /\ first_answer = 0 /\ relogins = 0 /\ resends = 0
  /\ resend_answer = 0 /\ authed_out = [ret |-> 0, exc |-> NoErr]

\* no helper runs
InitHelperOff ==
  /\ call_pc = "off" /\ helper_arg = <<>> /\ helper_ret = {} /\ call_err = NoErr /\ requests = 0

\* no ping was sent
InitPingOff == ping_log = <<>>

InitLateOff == InitSendOff /\ InitLifeOff /\ InitHelperOff /\ InitPingOff

\* no task was created, nothing was posted
InitCounts ==
  /\ tasks = 0 /\ starts = 0 /\ logged_out = FALSE /\ posts = 0 /\ failed_code = ""

InitAux ==
  /\ InitSseOff /\ InitWalkOff /\ InitPickOff /\ InitTripOff /\ InitLateOff
  /\ InitCounts

\* ------------------------------------------------------- call and raise
Resting == pc \in {"idle", "done", "failed"}

\* a login procedure is called: nothing of the Session changes yet
CallCore(name, first, school, text) ==
  /\ Resting
  /\ ops < MaxOps
  /\ ops' = ops + 1
  /\ op' = name /\ pc' = first /\ school_arg' = school /\ payload' = text
  /\ g' = ops + 1
  /\ err' = NoErr
  /\ pre' = Session
  /\ esia_open' = FALSE /\ esia_cookies' = {} /\ login_state' = 0 /\ copies' = 0
  /\ qr_attempt' = 0 /\ gens' = <<>> /\ shown' = <<>> /\ subs' = <<>>
  /\ clears' = 0 /\ walks' = 0 /\ crosslogin_end' = "none" /\ sse_err' = NoErr
  /\ posts' = 0 /\ failed_code' = ""
  /\ UNCHANGED <<sessVars, resVars, kaVars>>

\* a login the caller starts: never while an authed call is awaiting its own,
\* nor on a client whose HTTP client was closed
CallWith(name, first, school, text) ==
  /\ authed_pc # "relogin" /\ ~http_closed
  /\ CallCore(name, first, school, text)
  /\ UNCHANGED restVars

Call(name, first, school) == CallWith(name, first, school, NoPayload)

\* the exception leaves the procedure
Raise(e) ==
  /\ pc' = "failed" /\ err' = e
  /\ UNCHANGED <<op, g, school_arg, payload, pre, ops>>

\* the exception leaves a federated login: `async with` closes esia_client
Fail(e) == Raise(e) /\ esia_open' = FALSE

Goto(next) ==
  /\ pc' = next
  /\ UNCHANGED <<op, g, school_arg, payload, err, pre, ops>>

\* ============================================================ login()
\* client.py 93-173
login ==
  \E school \in {"int", "str"} : Call("login", "login_logindata", school)

\* line 104: GET logindata; the portal sets the NSSESSIONID cookie
login_logindata ==
  /\ pc = "login_logindata"
  /\ \/ /\ \E setc \in BOOLEAN :
             cookies' = IF setc THEN SetCookie(cookies, "NSSESSIONID", g) ELSE cookies
        /\ Goto("login_getdata")
     \/ /\ \E t \in HttpErrors : Raise(Exc(t, <<"logindata">>))
        /\ UNCHANGED cookies
  /\ UNCHANGED <<access_token, at_header, student_id, year_id, school_id,
                 assignment_types, credentials, keepalive_task,
                 esiaVars, qrVars, resVars, auxVars>>

\* lines 107-120: POST auth/getdata, meta.pop("salt"); an int school is
\* stored at once, a str school is resolved first
login_getdata ==
  /\ pc = "login_getdata"
  /\ \/ /\ school_arg = "int"
        /\ school_id' = g
        /\ Goto("login_post")
     \/ /\ school_arg = "str"
        /\ UNCHANGED school_id
        /\ Goto("login_school")
     \/ /\ \E t \in HttpErrors \cup {"KeyError"} : Raise(Exc(t, <<"auth/getdata">>))
        /\ UNCHANGED school_id
  /\ UNCHANGED <<access_token, at_header, student_id, year_id,
                 assignment_types, credentials, cookies, keepalive_task,
                 esiaVars, qrVars, resVars, auxVars>>

\* NetSchool._resolve_school (1637-1671): stores the id itself before it
\* returns; no or several matches raise SchoolNotFound
resolve_school(next) ==
  \/ /\ school_id' = g
     /\ Goto(next)
  \/ /\ \E t \in HttpErrors \cup {"SchoolNotFound"} : Raise(Exc(t, <<"schools/search">>))
     /\ UNCHANGED school_id

\* lines 115-120
login_school ==
  /\ pc = "login_school"
  /\ resolve_school("login_post")
  /\ UNCHANGED <<access_token, at_header, student_id, year_id,
                 assignment_types, credentials, cookies, keepalive_task,
                 esiaVars, qrVars, resVars, auxVars>>

\* lines 122-151: POST login; 409 and a body without `at` raise LoginError
login_post ==
  /\ pc = "login_post"
  /\ \/ /\ access_token' = g /\ at_header' = g
        /\ Goto("login_init")
     \/ /\ \E e \in {Exc("LoginError", <<"409">>), Exc("LoginError", <<"no at">>),
                     Exc("HTTPStatusError", <<"login">>),
                     Exc("ServerUnavailable", <<"login">>)} : Raise(e)
        /\ UNCHANGED <<access_token, at_header>>
  /\ UNCHANGED <<student_id, year_id, school_id, assignment_types, credentials,
                 cookies, keepalive_task, esiaVars, qrVars, resVars, auxVars>>

\* lines 154-157: GET student/diary/init
login_init ==
  /\ pc = "login_init"
  /\ \/ /\ student_id' = g
        /\ Goto("login_year")
     \/ /\ \E t \in HttpErrors \cup {"KeyError"} : Raise(Exc(t, <<"student/diary/init">>))
        /\ UNCHANGED student_id
  /\ UNCHANGED <<access_token, at_header, year_id, school_id, assignment_types,
                 credentials, cookies, keepalive_task, esiaVars, qrVars, resVars, auxVars>>

\* lines 160-161: GET years/current
login_year ==
  /\ pc = "login_year"
  /\ \/ /\ year_id' = g
        /\ Goto("login_types")
     \/ /\ \E t \in HttpErrors \cup {"KeyError"} : Raise(Exc(t, <<"years/current">>))
        /\ UNCHANGED year_id
  /\ UNCHANGED <<access_token, at_header, student_id, school_id, assignment_types,
                 credentials, cookies, keepalive_task, esiaVars, qrVars, resVars, auxVars>>

\* lines 164-173: GET grade/assignment/types, then the credentials are kept
\* and keep-alive starts
login_types ==
  /\ pc = "login_types"
  /\ \/ /\ assignment_types' = {g}
        /\ credentials' = <<"user_name", "password", school_arg>>
        /\ LoginStartsKeepalive
        /\ Goto("done")
     \/ /\ \E t \in HttpErrors \cup {"KeyError"} : Raise(Exc(t, <<"grade/assignment/types">>))
        /\ UNCHANGED <<assignment_types, credentials, keepalive_task, kaVars>>
  /\ UNCHANGED <<access_token, at_header, student_id, year_id, school_id,
                 cookies, esiaVars, qrVars, resVars, restVars, postVars>>


\* ===================================================== _finish_login
\* client.py 1199-1217, the tail shared by every other login procedure;
\* what follows its return depends on the caller

\* lines 1201-1202: GET years/current
finish_year ==
  /\ pc = "finish_year"
  /\ \/ /\ year_id' = g
        /\ Goto(IF school_id <= 0 THEN "finish_context" ELSE "finish_types")
        /\ UNCHANGED esia_open
     \/ /\ \E t \in HttpErrors \cup {"KeyError"} : Fail(Exc(t, <<"years/current">>))
        /\ UNCHANGED year_id
  /\ UNCHANGED <<access_token, at_header, student_id, school_id, assignment_types,
                 credentials, cookies, keepalive_task,
                 esia_cookies, login_state, copies, qrVars, resVars, auxVars>>

\* lines 1204-1209: GET context when no school id is known; any failure is
\* passed over
finish_context ==
  /\ pc = "finish_context"
  /\ \/ \E sid \in {-1, g} : school_id' = sid
     \/ UNCHANGED school_id
  /\ Goto("finish_types")
  /\ UNCHANGED <<access_token, at_header, student_id, year_id, assignment_types,
                 credentials, cookies, keepalive_task, esiaVars, qrVars, resVars, auxVars>>

\* lines 1211-1217: GET grade/assignment/types; then, with no further await,
\* the caller's last statements: _esia_finalize_login 387-388,
\* login_with_token 1237-1246, login_with_cookies 1303-1312,
\* import_session 1420
finish_types ==
  /\ pc = "finish_types"
  /\ \/ /\ assignment_types' = {g}
        /\ \/ /\ op \in {"login_via_gosuslugi", "login_via_gosuslugi_qr"}
              /\ credentials' = <<>>
              /\ LoginStartsKeepalive
              /\ esia_open' = FALSE
              /\ Goto("done")
              /\ UNCHANGED school_id
           \/ /\ op \in {"login_with_token", "login_with_cookies"}
              /\ school_arg \in {"none", "int"}
              /\ school_id' = IF school_arg = "int" THEN g ELSE school_id
              /\ credentials' = <<>>
              /\ LoginStartsKeepalive
              /\ Goto("done")
              /\ UNCHANGED esia_open
           \/ /\ op \in {"login_with_token", "login_with_cookies"}
              /\ school_arg = "str"
              /\ Goto("tail_school")
              /\ UNCHANGED <<school_id, credentials, keepalive_task, kaVars, esia_open>>
           \/ /\ op = "import_session"
              /\ LoginStartsKeepalive
              /\ Goto("done")
              /\ UNCHANGED <<school_id, credentials, esia_open>>
     \/ /\ \E t \in HttpErrors \cup {"KeyError"} : Fail(Exc(t, <<"grade/assignment/types">>))
        /\ UNCHANGED <<assignment_types, school_id, credentials, keepalive_task, kaVars>>
  /\ UNCHANGED <<access_token, at_header, student_id, year_id, cookies,
                 esia_cookies, login_state, copies, qrVars, resVars, restVars, postVars>>

\* login_with_token 1238-1246, login_with_cookies 1304-1312: a str school
tail_school ==
  /\ pc = "tail_school"
  /\ \/ /\ school_id' = g
        /\ credentials' = <<>>
        /\ LoginStartsKeepalive
        /\ Goto("done")
     \/ /\ \E t \in HttpErrors \cup {"SchoolNotFound"} : Raise(Exc(t, <<"schools/search">>))
        /\ UNCHANGED <<school_id, credentials, keepalive_task, kaVars>>
  /\ UNCHANGED <<access_token, at_header, student_id, year_id, assignment_types,
                 cookies, esiaVars, qrVars, resVars, restVars, postVars>>

\* ================================================= login_with_token
\* client.py 1219-1246
login_with_token ==
  \E school \in {"none", "int", "str"} : Call("login_with_token", "token_init", school)

\* variant of the procedure that starts keep-alive as soon as the token is
\* stored
token_init_early ==
  /\ pc = "token_init"
  /\ access_token' = g /\ at_header' = g
  /\ StartKeepalive(TRUE) /\ UNCHANGED logged_out
  /\ \/ /\ student_id' = g
        /\ Goto("finish_year")
     \/ /\ \E t \in HttpErrors \cup {"KeyError"} : Raise(Exc(t, <<"student/diary/init">>))
        /\ UNCHANGED student_id
  /\ UNCHANGED <<year_id, school_id, assignment_types, credentials, cookies,
                 esiaVars, qrVars, resVars, restVars, postVars>>

\* lines 1227-1233: the token is stored, then GET student/diary/init
token_init ==
  /\ pc = "token_init"
  /\ access_token' = g /\ at_header' = g
  /\ \/ /\ student_id' = g
        /\ Goto("finish_year")
     \/ /\ \E t \in HttpErrors \cup {"KeyError"} : Raise(Exc(t, <<"student/diary/init">>))
        /\ UNCHANGED student_id
  /\ UNCHANGED <<year_id, school_id, assignment_types, credentials, cookies,
                 keepalive_task, esiaVars, qrVars, resVars, auxVars>>

\* =============================================== login_with_cookies
\* client.py 1263-1312; _parse_cookies gives an empty dict or one holding
\* NSSESSIONID
login_with_cookies ==
  \E school \in {"none", "int", "str"} : Call("login_with_cookies", "cookies_init", school)

\* lines 1274-1299
cookies_init ==
  /\ pc = "cookies_init"
  /\ \/ /\ Raise(Exc("LoginError", <<"no cookies">>))
        /\ UNCHANGED <<cookies, student_id, access_token, at_header>>
     \/ /\ \E other \in BOOLEAN :
             cookies' = IF other
                        THEN SetCookie(SetCookie(cookies, "NSSESSIONID", g), "other", g)
                        ELSE SetCookie(cookies, "NSSESSIONID", g)
        /\ \/ /\ student_id' = g
              /\ \E at \in {0, g} :
                   /\ access_token' = IF at # 0 THEN at ELSE access_token
                   /\ at_header' = IF at # 0 THEN at ELSE at_header
              /\ Goto("finish_year")
           \/ /\ \E t \in HttpErrors \cup {"KeyError"} :
                   Raise(session_expired(Exc(t, <<"student/diary/init">>)))
              /\ UNCHANGED <<student_id, access_token, at_header>>
  /\ UNCHANGED <<year_id, school_id, assignment_types, credentials,
                 keepalive_task, esiaVars, qrVars, resVars, auxVars>>

\* ==================================================== import_session
\* client.py 1379-1420
import_session ==
  \E text \in CallerPayloads(ops + 1) :
    CallWith("import_session", "import_init", "none", text)

\* lines 1395-1417: the text is parsed, the token and the cookies are stored,
\* then GET student/diary/init; setting a header to None is httpx's to
\* refuse or to take
import_init ==
  /\ pc = "import_init"
  /\ IF ~payload.valid
     THEN /\ Raise(Exc("JSONDecodeError", <<"payload">>))
          /\ UNCHANGED <<access_token, at_header, cookies, student_id, year_id, school_id>>
     ELSE IF ~has_key(payload, "access_token")
     THEN /\ Raise(Exc("KeyError", <<"payload">>))
          /\ UNCHANGED <<access_token, at_header, cookies, student_id, year_id, school_id>>
     ELSE /\ access_token' = payload_get(payload, "access_token", 0)
          /\ \/ /\ access_token' = 0
                /\ Raise(Exc("AttributeError", <<"set_header">>))
                /\ UNCHANGED <<at_header, cookies, student_id, year_id, school_id>>
             \/ /\ at_header' = access_token'
                /\ cookies' = set_cookies(cookies, payload.cookies)
                /\ \/ /\ student_id' = g
                      /\ year_id' = payload_get(payload, "year_id", -1)
                      /\ school_id' = payload_get(payload, "school_id", -1)
                      /\ Goto("finish_year")
                   \/ /\ \E t \in HttpErrors \cup {"KeyError"} :
                           Raise(session_expired(Exc(t, <<"student/diary/init">>)))
                      /\ UNCHANGED <<student_id, year_id, school_id>>
  /\ UNCHANGED <<assignment_types, credentials, keepalive_task,
                 esiaVars, qrVars, resVars, auxVars>>

\* ============================================ the external identity
\* the set-cookie headers a hop of a redirect chain can carry: <<name, host>>
SetCookieHeaders == {<<"NSSESSIONID", "sgo">>, <<"ESIA_SESSION", "esia">>}

\* a chain sets no cookie, or every hop sets its host's cookie
ChainHeaders == {{}, SetCookieHeaders}

\* _esia_crosslogin 205-209, _esia_callback_to_login_state 281-285: httpx
\* stores a response's cookies under the host that sent them, and the walker
\* sets each again with esia_client.cookies.set(name, value): no domain
absorb(jar, hdrs, v) ==
  {c \in jar : \A h \in hdrs : ~(c[1] = h[1] /\ c[2] \in {h[2], ""})}
    \cup {<<h[1], h[2], v>> : h \in hdrs} \cup {<<h[1], "", v>> : h \in hdrs}

\* _esia_finalize_login 376-378: the cookies copied into the main jar
transferable(c) == c[2] = "sgo" \/ c[2] = ""

session_transfer_cookies(main, ext) ==
  LET copied == {c \in ext : transferable(c)}
  IN  {m \in main : \A c \in copied : c[1] # m[1]}
        \cup {<<c[1], c[3]>> : c \in copied}

\* _esia_crosslogin 192-218 as one step: it raises what esia_client.get
\* raises, or returns the last URL of the chain, on the broker or elsewhere
esia_crosslogin(jar, reached_pc, elsewhere) ==
  /\ walks' = walks + 1
  /\ \/ /\ \E hdrs \in ChainHeaders : esia_cookies' = absorb(jar, hdrs, g)
        /\ \/ /\ esia_open' = TRUE
              /\ crosslogin_end' = "broker"
              /\ Goto(reached_pc)
           \/ /\ crosslogin_end' = "elsewhere"
              /\ elsewhere
     \/ /\ Fail(Exc("RequestError", <<"crosslogin">>))
        /\ crosslogin_end' = "error"
        /\ esia_cookies' = jar

\* ============================================== login_via_gosuslugi
\* client.py 403-495
login_via_gosuslugi ==
  Call("login_via_gosuslugi", "gos_start", "none")

\* lines 426-452: empty credentials raise before the client exists; then
\* the crosslogin walk must end on the broker
gos_start ==
  /\ pc = "gos_start"
  /\ \/ /\ Raise(Exc("LoginError", <<"empty login or password">>))
        /\ UNCHANGED <<esia_open, esia_cookies, walks, crosslogin_end>>
     \/ esia_crosslogin(esia_cookies, "gos_login",
                        Fail(Exc("ESIAError", <<"ESIA not reached">>)))
  /\ UNCHANGED <<sessVars, login_state, copies, qr_attempt, gens, shown, subs,
                 clears, sse_err, resVars, auxVars>>

\* the codes of lines 465-473 and one the table does not know
KnownFailedCodes ==
  {"INVALID_PASSWORD", "INVALID_LOGIN", "ACCOUNT_LOCKED", "ACCOUNT_NOT_FOUND",
   "CAPTCHA_REQUIRED"}
FailedCodes == KnownFailedCodes \cup {"SOME_OTHER_CODE"}

\* variant of the table that leaves every code as it is
error_message_raw(code) == code

\* lines 465-474: error_messages.get(error_code, error_code)
error_message(code) ==
  CASE code = "INVALID_PASSWORD" -> "wrong password"
    [] code = "INVALID_LOGIN" -> "wrong login"
    [] code = "ACCOUNT_LOCKED" -> "account locked"
    [] code = "ACCOUNT_NOT_FOUND" -> "account not found"
    [] code = "CAPTCHA_REQUIRED" -> "captcha required (too many attempts)"
    [] OTHER -> code

\* lines 455-475: POST login and password; `failed` in the answer raises
gos_login ==
  /\ pc = "gos_login"
  /\ posts' = posts + 1
  /\ \/ /\ failed_code' = ""
        /\ Goto("fed_resolve")
        /\ UNCHANGED esia_open
     \/ \E code \in FailedCodes :
          /\ failed_code' = code
          /\ Fail(Exc("ESIAError", <<"ESIA error: ", error_message(code)>>))
     \/ /\ failed_code' = ""
        /\ Fail(Exc("RequestError", <<"api/login">>))
  /\ UNCHANGED <<sessVars, esia_cookies, login_state, copies, qrVars, resVars,
                 restVars, kaVars>>

\* lines 478-484 and 621-628: what _esia_resolve_login_response gives the
\* orchestrator (SpecResolve follows it step by step): a URL, an empty
\* string, or an exception
fed_resolve ==
  /\ pc = "fed_resolve"
  /\ \/ /\ Goto("fed_callback")
        /\ UNCHANGED esia_open
     \/ \E e \in {Exc("ESIAError", <<"no redirect_url">>),
                  Exc("ESIAError", <<"resolver">>), Exc("MFAError", <<"resolver">>),
                  Exc("RequestError", <<"resolver">>)} : Fail(e)
  /\ UNCHANGED <<sessVars, esia_cookies, login_state, copies, qrVars, resVars, auxVars>>

\* _esia_callback_to_login_state 272-304
fed_callback ==
  /\ pc = "fed_callback"
  /\ \/ /\ \E hdrs \in ChainHeaders :
             esia_cookies' = absorb(esia_cookies, hdrs, g)
        /\ \/ /\ login_state' = g
              /\ Goto("fed_logindata")
              /\ UNCHANGED esia_open
           \/ /\ Fail(Exc("ESIAError", <<"no loginState">>))
              /\ UNCHANGED login_state
     \/ /\ Fail(Exc("RequestError", <<"callback">>))
        /\ UNCHANGED <<esia_cookies, login_state>>
  /\ UNCHANGED <<sessVars, copies, qrVars, resVars, auxVars>>

\* variant of the logindata request sent with the main client: the portal's
\* cookie lands in the main jar
fed_logindata_main ==
  /\ pc = "fed_logindata"
  /\ cookies' = SetCookie(cookies, "NSSESSIONID", g)
  /\ Goto("fed_account_info")
  /\ UNCHANGED <<access_token, at_header, student_id, year_id, school_id,
                 assignment_types, credentials, keepalive_task,
                 esiaVars, qrVars, resVars, auxVars>>

\* _esia_finalize_login 318: GET logindata with esia_client
fed_logindata ==
  /\ pc = "fed_logindata"
  /\ \/ /\ \E setc \in BOOLEAN :
             esia_cookies' = IF setc
                             THEN {c \in esia_cookies :
                                     ~(c[1] = "NSSESSIONID" /\ c[2] = "sgo")}
                                   \cup {<<"NSSESSIONID", "sgo", g>>}
                             ELSE esia_cookies
        /\ Goto("fed_account_info")
        /\ UNCHANGED esia_open
     \/ /\ Fail(Exc("RequestError", <<"logindata">>))
        /\ UNCHANGED esia_cookies
  /\ UNCHANGED <<sessVars, login_state, copies, qrVars, resVars, auxVars>>

\* lines 320-341: account-info, then _pick_esia_user
fed_account_info ==
  /\ pc = "fed_account_info"
  /\ \/ /\ Goto("fed_idp")
        /\ UNCHANGED esia_open
     \/ \E e \in {Exc("ESIAError", <<"account-info status">>),
                  Exc("LoginError", <<"no users">>),
                  Exc("LoginError", <<"organization not found">>),
                  Exc("RequestError", <<"account-info">>)} : Fail(e)
  /\ UNCHANGED <<sessVars, esia_cookies, login_state, copies, qrVars, resVars, auxVars>>

\* lines 353-378: the IDP exchange; with a token, Session Transfer
fed_idp ==
  /\ pc = "fed_idp"
  /\ \/ /\ access_token' = g /\ at_header' = g
        /\ cookies' = session_transfer_cookies(cookies, esia_cookies)
        /\ copies' = copies + 1
        /\ Goto("fed_init")
        /\ UNCHANGED esia_open
     \/ /\ \E e \in {Exc("LoginError", <<"IDP status">>), Exc("LoginError", <<"no at">>),
                     Exc("RequestError", <<"auth/login">>)} : Fail(e)
        /\ UNCHANGED <<access_token, at_header, cookies, copies>>
  /\ UNCHANGED <<student_id, year_id, school_id, assignment_types, credentials,
                 keepalive_task, esia_cookies, login_state, qrVars, resVars, auxVars>>

\* lines 381-386: GET student/diary/init with the main client
fed_init ==
  /\ pc = "fed_init"
  /\ \/ /\ student_id' = g
        /\ Goto("finish_year")
        /\ UNCHANGED esia_open
     \/ /\ \E t \in HttpErrors \cup {"KeyError"} : Fail(Exc(t, <<"student/diary/init">>))
        /\ UNCHANGED student_id
  /\ UNCHANGED <<access_token, at_header, year_id, school_id, assignment_types,
                 credentials, cookies, keepalive_task,
                 esia_cookies, login_state, copies, qrVars, resVars, auxVars>>

\* ================================================ the QR listener
\* _poll_esia_qr_sse 742-746
ExpiredCodes == {"QR_AUTHORIZATION_SESSION_EXPIRED", "QR_CODE_SESSION_NOT_FOUND",
                 "QR_CODE_SESSION_OUTDATED"}

\* what the subscription can deliver: a first usable event with the code
\* and message of its `error` object ("" when absent), the server closing
\* the stream, no event within the timeout, or the connection failing
SseStreams ==
  [kind : {"event"}, code : ExpiredCodes \cup {"", "ESIA-007110", "OTHER"},
   message : {""}]
    \cup [kind : {"event"}, code : {"OTHER"}, message : {"ESIA-007110"}]
    \cup [kind : {"closed", "timeout", "oserror"}, code : {""}, message : {""}]

\* _poll_esia_qr_sse 709-764: the exception raised, NoErr when the event is
\* returned as the payload
poll_esia_qr_sse(st) ==
  CASE st.kind = "closed" -> Exc("ESIAError", <<"SSE closed by server">>)
    [] st.kind = "timeout" -> Exc("ESIAError", <<"QR scan timeout">>)
    [] st.kind = "oserror" -> Exc("OSError", <<"connection">>)
    [] OTHER ->
         IF st.code \in ExpiredCodes
         THEN Exc("ESIAError", <<"QR session expired: ", st.code>>)
         ELSE IF st.code # ""
              THEN Exc("ESIAError", <<"ESIA error at QR login: ", st.code, " - ", st.message>>)
              ELSE NoErr

\* login_via_gosuslugi_qr 603: the errors the orchestrator retries
qr_retriable(e, attempt) ==
  Contains(e.msg, "ESIA-007110") /\ attempt < max_qr_retries

\* lines 612-618: the error raised when it does not retry
qr_wrapped(e) == Exc("ESIAError", <<"QR login failed", "details: ">> \o e.msg)

\* variant of the deep-link that keeps the first exchange's token
deep_link_first(signed_token) == <<"gosuslugi://auth/signed_token=", 1>>

\* line 580
deep_link(signed_token) == <<"gosuslugi://auth/signed_token=", signed_token>>

\* =========================================== login_via_gosuslugi_qr
\* client.py 501-641
login_via_gosuslugi_qr ==
  Call("login_via_gosuslugi_qr", "qr_start", "none")

\* lines 524-545: the first crosslogin walk must end on the broker; then
\* the loop starts with qr_attempt = 1
qr_start ==
  /\ pc = "qr_start"
  /\ esia_crosslogin(esia_cookies, "qr_generate",
                     Fail(Exc("ESIAError", <<"ESIA not reached">>)))
  /\ qr_attempt' = IF pc' = "qr_generate" THEN 1 ELSE qr_attempt
  /\ UNCHANGED <<sessVars, login_state, copies, gens, shown, subs,
                 clears, sse_err, resVars, auxVars>>

\* variant of the retry that keeps the cookies and the crosslogin state
qr_rewalk_keep ==
  /\ pc = "qr_rewalk"
  /\ esia_open' = TRUE
  /\ Goto("qr_generate")
  /\ UNCHANGED <<sessVars, esia_cookies, login_state, copies, qr_attempt, gens,
                 shown, subs, clears, walks, crosslogin_end, sse_err, resVars, auxVars>>

\* lines 546-548: a later attempt clears the cookies and walks again; the
\* URL the walk returns is not looked at
qr_rewalk ==
  /\ pc = "qr_rewalk"
  /\ clears' = clears + 1
  /\ esia_crosslogin({}, "qr_generate", esia_open' = TRUE /\ Goto("qr_generate"))
  /\ UNCHANGED <<sessVars, login_state, copies, qr_attempt, gens, shown, subs,
                 sse_err, resVars, auxVars>>

\* lines 550-578: POST /qr/generate; the k-th answer carries signed_token k
\* and qr_id k, or lacks one of them (0)
qr_generate ==
  /\ pc = "qr_generate"
  /\ \/ /\ \E st \in {0, Len(gens) + 1}, id \in {0, Len(gens) + 1} :
             /\ gens' = Append(gens, [signed_token |-> st, qr_id |-> id])
             /\ IF st = 0 \/ id = 0
                THEN Fail(Exc("ESIAError", <<"no QR data">>))
                ELSE Goto("qr_show") /\ UNCHANGED esia_open
     \/ /\ \E e \in {Exc("ESIAError", <<"QR generate status">>),
                     Exc("RequestError", <<"qr/generate">>)} : Fail(e)
        /\ UNCHANGED gens
  /\ UNCHANGED <<sessVars, esia_cookies, login_state, copies, qr_attempt, shown,
                 subs, clears, walks, crosslogin_end, sse_err, resVars, auxVars>>

\* lines 580-589: the deep-link goes to qr_callback, or to stdout
qr_show ==
  /\ pc = "qr_show"
  /\ shown' = Append(shown, deep_link(gens[Len(gens)].signed_token))
  /\ \/ /\ Goto("qr_poll")
        /\ UNCHANGED esia_open
     \/ Fail(Exc("CallbackError", <<"qr_callback">>))
  /\ UNCHANGED <<sessVars, esia_cookies, login_state, copies, qr_attempt, gens,
                 subs, clears, walks, crosslogin_end, sse_err, resVars, auxVars>>

\* lines 591-618: the subscription for this qr_id, and what follows it
qr_poll ==
  /\ pc = "qr_poll"
  /\ subs' = Append(subs, gens[Len(gens)].qr_id)
  /\ \E st \in SseStreams :
       LET e == poll_esia_qr_sse(st) IN
         \/ /\ e = NoErr
            /\ sse_err' = NoErr
            /\ Goto("fed_resolve")
            /\ UNCHANGED <<esia_open, qr_attempt>>
         \/ /\ e.type = "ESIAError"
            /\ sse_err' = e
            /\ IF qr_retriable(e, qr_attempt)
               THEN /\ qr_attempt' = qr_attempt + 1
                    /\ Goto("qr_rewalk")
                    /\ UNCHANGED esia_open
               ELSE /\ Fail(qr_wrapped(e))
                    /\ UNCHANGED qr_attempt
         \/ /\ e.type \notin {"none", "ESIAError"}
            /\ sse_err' = NoErr
            /\ Fail(e)
            /\ UNCHANGED qr_attempt
  /\ UNCHANGED <<sessVars, esia_cookies, login_state, copies, gens, shown,
                 clears, walks, crosslogin_end, resVars, auxVars>>

\* ============================================ Branch-Step Resolver
Urls == {"/a", "/b"}
RawMfaTypes == {"sms", "TTP", "MAX", "PUSH", "UNKNOWN"}

\* the answers without a redirect URL, one per way the handlers branch
Bases ==
  {Body(a, "", FALSE, "", FALSE) :
     a \in {"SOLVE_ANOMALY_REACTION", "DONE", "CHANGE_PASSWORD", "STEP_A", "STEP_B", ""}}
    \cup {Body("MAX_QUIZ", "", sk, "", FALSE) : sk \in BOOLEAN}
    \cup {Body("ENTER_MFA", "", FALSE, mt, FALSE) : mt \in RawMfaTypes}

\* what a verify, skip or next-step request can answer
Bodies == {[b EXCEPT !.top["redirect_url"] = u] : b \in Bases, u \in {"", "/a"}}
FailedBodies == {Body("", "", FALSE, "", TRUE)}

\* what the login request or the QR event can hold: a base answer with at
\* most MaxUrlFields redirect fields filled in
AllFields == {<<"top", f>> : f \in Range(TopFields)}
               \cup {<<"nested", f>> : f \in Range(NestedFields)}

LoginDatas ==
  UNION {
    {Answer(b.action,
            [f \in Range(TopFields) |-> IF <<"top", f>> \in S THEN v[<<"top", f>>] ELSE ""],
            d,
            [f \in Range(NestedFields) |->
               IF <<"nested", f>> \in S THEN v[<<"nested", f>>] ELSE ""],
            b.skippable, b.mfa_type, FALSE) :
       b \in Bases, v \in [S -> Urls],
       d \in IF \E f \in Range(NestedFields) : <<"nested", f>> \in S
             THEN {TRUE} ELSE BOOLEAN} :
    S \in {T \in SUBSET AllFields : Cardinality(T) <= MaxUrlFields}}

\* an esia_client request: a 200 answer, another status, or an exception
Req(bodies) ==
  {[kind |-> "body", code |-> 200, body |-> b] : b \in bodies}
    \cup {[kind |-> "status", code |-> c, body |-> NoBody] : c \in {404, 500}}
    \cup {[kind |-> "exc", code |-> 0, body |-> NoBody]}

\* a request whose status the code does not look at
ReqAny(bodies) == {o \in Req(bodies) : o.kind # "status"}

\* input(): the code the user types
Codes == {"", "1234"}

\* a `return v` of handler h. The handlers call each other in tail position
\* except the step driver's call of the anomaly handler (1029-1033): a
\* suspended driver returns a non-empty v at once, and goes on to its
\* next-step request when v is empty
r_return(v, h) ==
  IF stack = <<>> \/ v # ""
  THEN /\ rpc' = "returned" /\ result' = v /\ ret_from' = h
       /\ stack' = <<>>
       /\ UNCHANGED <<iter, rerr>>
  ELSE /\ rpc' = "resume"
       /\ iter' = stack[Len(stack)].i
       /\ stack' = SubSeq(stack, 1, Len(stack) - 1)
       /\ UNCHANGED <<result, ret_from, rerr>>

\* an exception: no handler catches it
r_raise(t, m) ==
  /\ rpc' = "raised" /\ rerr' = Exc(t, m)
  /\ stack' = <<>>
  /\ UNCHANGED <<iter, result, ret_from>>

\* handler h runs next
r_call(h, i, st) ==
  /\ rpc' = h /\ iter' = i /\ stack' = st
  /\ UNCHANGED <<result, ret_from, rerr>>

\* _esia_resolve_login_response 240-270
esia_resolve_login_response ==
  /\ rpc = "resolve"
  /\ LET redirect_url == extract_redirect_url(data) IN
       IF redirect_url # "" THEN r_return(redirect_url, "resolve")
       ELSE CASE data.action = "ENTER_MFA" -> r_call("mfa", iter, stack)
              [] data.action = "SOLVE_ANOMALY_REACTION" -> r_call("anomaly", iter, stack)
              [] data.action = "DONE" ->
                   IF data.top["redirect_url"] # ""
                   THEN r_return(data.top["redirect_url"], "resolve")
                   ELSE r_raise("ESIAError", <<"DONE without redirect_url">>)
              [] data.action \in {"MAX_QUIZ", "CHANGE_PASSWORD"} -> r_call("post", iter, stack)
              [] OTHER -> r_raise("ESIAError", <<"unexpected answer">>)
  /\ UNCHANGED <<data, polls, waited, step_requests, tried_urls, requested>>
  /\ UNCHANGED <<sessVars, callVars, esiaVars, qrVars, auxVars>>

\* _handle_esia_mfa 835-837: str(mfa_type_raw).upper(), TTP is TOTP
mfa_type_of(raw) ==
  LET upper == IF raw = "sms" THEN "SMS" ELSE raw
  IN  IF upper = "TTP" THEN "TOTP" ELSE upper

\* lines 879-884: the verification endpoint of a type. It names one for each
\* of SMS, TOTP and MAX, the only types line 845 lets through, so the search
\* over other endpoint shapes (892-907) is never entered.
verify_url_map(mfa_type) ==
  CASE mfa_type = "TOTP" -> "mfa/verify"
    [] mfa_type = "SMS" -> "otp/verify"
    [] mfa_type = "MAX" -> "otp-max/verify"

\* _handle_esia_mfa 821-962
handle_esia_mfa ==
  /\ rpc = "mfa"
  /\ LET mfa_type == mfa_type_of(data.mfa_type) IN
       \/ /\ mfa_type \in {"SMS", "TOTP", "MAX"}
          /\ \E code \in Codes :
               IF code = ""
               THEN /\ r_raise("MFAError", <<"no code">>)
                    /\ UNCHANGED <<data, tried_urls, requested>>
               ELSE /\ requested' = TRUE
                    /\ \E o \in Req(Bodies \cup FailedBodies) :
                         CASE o.kind = "exc" ->
                                /\ r_raise("RequestError", <<"verify">>)
                                /\ UNCHANGED <<data, tried_urls>>
                           [] o.kind = "status" ->
                                /\ r_raise("MFAError", IF o.code = 404
                                                       THEN <<"no verify endpoint">>
                                                       ELSE <<"verify status">>)
                                /\ tried_urls' = IF o.code = 404
                                                 THEN <<verify_url_map(mfa_type)>>
                                                 ELSE tried_urls
                                /\ UNCHANGED data
                           [] OTHER ->
                                /\ UNCHANGED tried_urls
                                /\ IF o.body.failed
                                   THEN r_raise("MFAError", <<"wrong code">>) /\ UNCHANGED data
                                   ELSE IF o.body.top["redirect_url"] # ""
                                        THEN /\ r_return(o.body.top["redirect_url"], "mfa")
                                             /\ UNCHANGED data
                                        ELSE /\ r_call("post", iter, stack)
                                             /\ data' = o.body
          /\ UNCHANGED <<polls, waited, step_requests>>
       \/ /\ mfa_type = "PUSH"
          /\ r_call("push", iter, stack)
          /\ polls' = 0 /\ waited' = 0
          /\ UNCHANGED <<data, step_requests, tried_urls, requested>>
       \/ /\ mfa_type \notin {"SMS", "TOTP", "MAX", "PUSH"}
          /\ r_raise("MFAError", <<"unknown MFA type">>)
          /\ UNCHANGED <<data, polls, waited, step_requests, tried_urls, requested>>
  /\ UNCHANGED <<sessVars, callVars, esiaVars, qrVars, auxVars>>

\* what a poll request can answer
PushAnswers == [has_redirect_url : BOOLEAN, redirect_url : {"", "/a"}, has_failed : BOOLEAN]

\* variant of the bound that polls until max_wait seconds have passed and
\* then once more
range_exhausted_late(n) == n > push_max_wait \div push_interval

\* line 1130: `for _ in range(max_wait // 3)` is used up after n passes
range_exhausted(n) == n >= push_max_wait \div push_interval

\* _poll_esia_push 1119-1155, one pass of its loop; _handle_esia_mfa 950-952
\* returns the string it returns
poll_esia_push ==
  /\ rpc = "push"
  /\ IF range_exhausted(polls)
     THEN /\ r_raise("MFAError", <<"push timeout">>)
          /\ UNCHANGED <<polls, waited, tried_urls, requested>>
     ELSE /\ polls' = polls + 1
          /\ waited' = waited + push_interval
          /\ UNCHANGED tried_urls
          /\ requested' = TRUE
          /\ \/ r_call("push", iter, stack)
             \/ \E a \in PushAnswers :
                  IF a.has_redirect_url THEN r_return(a.redirect_url, "push")
                  ELSE IF a.has_failed THEN r_raise("MFAError", <<"push rejected">>)
                       ELSE r_call("push", iter, stack)
  /\ UNCHANGED <<data, step_requests>>
  /\ UNCHANGED <<sessVars, callVars, esiaVars, qrVars, auxVars>>

\* variant of the loop bound that allows one more pass
loop_exhausted_late(i) == i > PostMfaMaxSteps

\* the `for _ in range(10)` of the step driver is used up
loop_exhausted(i) == i >= PostMfaMaxSteps

\* _handle_esia_post_mfa 972-978: without an action the next step is asked
\* for first
handle_esia_post_mfa ==
  /\ rpc = "post"
  /\ IF data.action = ""
     THEN /\ requested' = TRUE
          /\ \E o \in ReqAny(Bodies) :
               IF o.kind = "exc"
               THEN r_raise("RequestError", <<"next-step">>) /\ UNCHANGED data
               ELSE r_call("loop", 0, stack) /\ data' = o.body
     ELSE /\ r_call("loop", 0, stack)
          /\ UNCHANGED <<data, requested>>
  /\ step_requests' = <<>>
  /\ UNCHANGED <<polls, waited, tried_urls>>
  /\ UNCHANGED <<sessVars, callVars, esiaVars, qrVars, auxVars>>

\* the step driver goes on with the answer of a request: `continue`
driver_continue(o, what) ==
  IF o.kind = "exc"
  THEN r_raise("RequestError", <<what>>) /\ UNCHANGED data
  ELSE r_call("loop", iter + 1, stack) /\ data' = o.body

\* variant of the test that never sees a repeated action
no_progress_never(new_action, action) == FALSE

\* line 1047: `new_action == action`, the next step is the step just handled
no_progress(new_action, action) == new_action = action

\* _handle_esia_post_mfa 980-1059, one pass of its loop
post_mfa_step ==
  /\ rpc = "loop"
  /\ IF loop_exhausted(iter)
     THEN /\ r_raise("ESIAError", <<"too many steps">>)
          /\ UNCHANGED <<data, requested, step_requests>>
     ELSE CASE data.action = "DONE" ->
                 /\ IF data.top["redirect_url"] # ""
                    THEN r_return(data.top["redirect_url"], "post_mfa")
                    ELSE r_raise("ESIAError", <<"DONE without redirect_url">>)
                 /\ step_requests' = <<>>
                 /\ UNCHANGED <<data, requested>>
            [] data.action = "MAX_QUIZ" ->
                 IF ~data.skippable
                 THEN /\ r_raise("ESIAError", <<"MAX_QUIZ cannot be skipped">>)
                      /\ step_requests' = <<>>
                      /\ UNCHANGED <<data, requested>>
                 ELSE /\ requested' = TRUE
                      /\ step_requests' = <<"quiz-max/skip">>
                      /\ \E o \in Req(Bodies) :
                           IF o.kind = "status"
                           THEN /\ r_raise("ESIAError", <<"MAX_QUIZ skip status">>)
                                /\ UNCHANGED data
                           ELSE driver_continue(o, "quiz-max/skip")
            [] data.action = "CHANGE_PASSWORD" ->
                 /\ requested' = TRUE
                 /\ \E o \in Req(Bodies) :
                      IF o.kind = "status"
                      THEN /\ step_requests' = <<"change-password/skip", "next-step">>
                           /\ \E n \in ReqAny(Bodies) : driver_continue(n, "next-step")
                      ELSE /\ step_requests' = <<"change-password/skip">>
                           /\ driver_continue(o, "change-password/skip")
            [] data.action = "SOLVE_ANOMALY_REACTION" ->
                 /\ Len(stack) < MaxDepth
                 /\ r_call("anomaly", 0, Append(stack, [i |-> iter]))
                 /\ step_requests' = <<>>
                 /\ UNCHANGED <<data, requested>>
            [] OTHER ->
                 /\ requested' = TRUE
                 /\ step_requests' = <<"next-step">>
                 /\ \E o \in ReqAny(Bodies) :
                      IF o.kind = "body" /\ no_progress(o.body.action, data.action)
                      THEN /\ r_raise("ESIAError", <<"unknown step">>)
                           /\ UNCHANGED data
                      ELSE driver_continue(o, "next-step")
  /\ UNCHANGED <<polls, waited, tried_urls>>
  /\ UNCHANGED <<sessVars, callVars, esiaVars, qrVars, auxVars>>

\* _handle_esia_post_mfa 1032-1039: the anomaly handler gave the suspended
\* driver no redirect URL
post_mfa_resume ==
  /\ rpc = "resume"
  /\ requested' = TRUE
  /\ step_requests' = <<"next-step">>
  /\ \E o \in ReqAny(Bodies) : driver_continue(o, "next-step")
  /\ UNCHANGED <<polls, waited, tried_urls>>
  /\ UNCHANGED <<sessVars, callVars, esiaVars, qrVars, auxVars>>

\* _handle_esia_anomaly 1061-1117
handle_esia_anomaly ==
  /\ rpc = "anomaly"
  /\ requested' = TRUE
  /\ \/ /\ r_raise("RequestError", <<"anomaly-reaction/start">>)
        /\ UNCHANGED data
     \/ \E code \in Codes :
          IF code = ""
          THEN r_raise("MFAError", <<"no code">>) /\ UNCHANGED data
          ELSE \E o \in Req(Bodies) :
                 CASE o.kind = "exc" ->
                        /\ r_raise("RequestError", <<"anomaly-reaction/verify">>)
                        /\ UNCHANGED data
                   [] o.kind = "status" ->
                        /\ r_raise("MFAError", <<"anomaly verify status">>)
                        /\ UNCHANGED data
                   [] OTHER ->
                        LET res == o.body IN
                          IF res.top["redirect_url"] # ""
                          THEN /\ r_return(res.top["redirect_url"], "anomaly")
                               /\ UNCHANGED data
                          ELSE IF res.action = "ENTER_MFA"
                          THEN r_call("mfa", iter, stack) /\ data' = res
                          ELSE IF res.action \in {"MAX_QUIZ", "CHANGE_PASSWORD", "DONE"}
                          THEN r_call("post", iter, stack) /\ data' = res
                          ELSE \E n \in ReqAny(Bodies) :
                                 IF n.kind = "exc"
                                 THEN /\ r_raise("RequestError", <<"next-step">>)
                                      /\ UNCHANGED data
                                 ELSE /\ r_call("post", iter, stack)
                                      /\ data' = n.body
  /\ UNCHANGED <<polls, waited, step_requests, tried_urls>>
  /\ UNCHANGED <<sessVars, callVars, esiaVars, qrVars, auxVars>>

\* ======================================================= SpecResolve
\* one resolution, for every login_data
InitResolve ==
  /\ InitSession /\ InitCall /\ InitEsia /\ InitQr /\ InitAux
  /\ rpc = "resolve" /\ data \in LoginDatas
  /\ iter = 0 /\ stack = <<>> /\ polls = 0 /\ waited = 0 /\ tried_urls = <<>>
  /\ step_requests = <<>>
  /\ requested = FALSE
  /\ result = "" /\ ret_from = "" /\ rerr = NoErr

NextResolve ==
  \/ esia_resolve_login_response
  \/ handle_esia_mfa
  \/ poll_esia_push
  \/ handle_esia_post_mfa
  \/ post_mfa_step
  \/ post_mfa_resume
  \/ handle_esia_anomaly

SpecResolve == InitResolve /\ [][NextResolve]_vars

\* ============================================================== Spec
Init == InitSession /\ InitCall /\ InitEsia /\ InitQr /\ InitRes /\ InitAux

\* every step but the call of import_session
LoginSteps ==
  \/ login \/ login_logindata \/ login_getdata \/ login_school \/ login_post
  \/ login_init \/ login_year \/ login_types
  \/ finish_year \/ finish_context \/ finish_types \/ tail_school
  \/ login_with_token \/ token_init
  \/ login_with_cookies \/ cookies_init
  \/ import_init
  \/ login_via_gosuslugi \/ gos_start \/ gos_login
  \/ fed_resolve \/ fed_callback \/ fed_logindata \/ fed_account_info
  \/ fed_idp \/ fed_init
  \/ login_via_gosuslugi_qr \/ qr_start \/ qr_rewalk \/ qr_generate
  \/ qr_show \/ qr_poll

Next == LoginSteps \/ import_session

Spec == Init /\ [][Next]_vars

\* ============================================= export/import round trip
\* A client that finished a login exports its session (1360-1377) and a
\* fresh client imports the text (1379-1420): the Session variables are the
\* importing client's from here on. The portal still knows the session, so
\* its answers are the ones the exporting login got (g is kept).
round_trip ==
  /\ pc = "done"
  /\ ops < MaxOps
  /\ ops' = ops + 1
  /\ exporter' = Session
  /\ payload' = export_session(Session)
  /\ access_token' = FreshSession.access_token /\ at_header' = FreshSession.at_header
  /\ student_id' = FreshSession.student_id /\ year_id' = FreshSession.year_id
  /\ school_id' = FreshSession.school_id
  /\ assignment_types' = FreshSession.assignment_types
  /\ credentials' = FreshSession.credentials /\ cookies' = FreshSession.cookies
  /\ keepalive_task' = FALSE /\ tasks' = 0 /\ starts' = 0 /\ logged_out' = FALSE
  /\ op' = "import_session" /\ pc' = "import_init" /\ school_arg' = "none"
  /\ err' = NoErr /\ pre' = FreshSession
  /\ UNCHANGED <<g, esiaVars, qrVars, resVars, sseVars, walkVars, pickVars, lateVars,
                 postVars>>

NextRoundTrip == LoginSteps \/ round_trip

SpecRoundTrip == Init /\ [][NextRoundTrip]_vars

\* ======================================= Streaming Event Listener
\* _poll_esia_qr_sse 665-770 byte by byte. A byte string is a sequence of
\* pieces: "lf" is the newline, "sp" and "cr" are white space, "da" "ta:"
\* together spell `data:`, "{" followed by one of ObjTails is a JSON
\* object, "num" is a JSON value that is no object, everything else is
\* text that is no JSON.
Blank == {"sp", "cr"}

\* the objects an event can hold: without `error`, with an expired-session
\* code, with another code and a message
ObjTails == {"ok}", "exp}", "err}"}

\* the lines a server can send, without their newline
SseLines ==
  { <<"hdr", "cr">>, <<"cr">>, <<":c">>,
    <<"da", "ta:", "sp">>, <<"da", "ta:", "junk">>, <<"da", "ta:", "{">>,
    <<"da", "ta:", "sp", "{", "ok}">>, <<"sp", "da", "ta:", "{", "ok}", "cr">>,
    <<"da", "ta:", "{", "exp}">>, <<"da", "ta:", "{", "err}", "cr">>,
    <<"da", "ta:", "num">>, <<"hdr", "da", "ta:", "{", "ok}">> }

\* a last line the server never terminates
SseTails == {<<>>, <<"da", "ta:", "{", "ok}">>}

RECURSIVE concat_lines(_)
concat_lines(ls) ==
  IF ls = <<>> THEN <<>> ELSE Head(ls) \o <<"lf">> \o concat_lines(Tail(ls))

SseStreamsOfBytes ==
  UNION { {concat_lines(ls) \o t : ls \in [1..n -> SseLines], t \in SseTails} :
          n \in 0..MaxLines }

\* str.strip()
RECURSIVE lstrip(_)
lstrip(b) == IF b # <<>> /\ Head(b) \in Blank THEN lstrip(Tail(b)) ELSE b

RECURSIVE rstrip(_)
rstrip(b) ==
  IF b # <<>> /\ b[Len(b)] \in Blank THEN rstrip(SubSeq(b, 1, Len(b) - 1)) ELSE b

strip(b) == lstrip(rstrip(b))

\* line 724: line.startswith("data:")
startswith_data(line) == Len(line) >= 2 /\ line[1] = "da" /\ line[2] = "ta:"

\* json.loads (732): an object with its error.code and error.message, a
\* value that is no object, or a ValueError
json_loads(b) ==
  IF Len(b) = 2 /\ b[1] = "{" /\ b[2] \in ObjTails
  THEN [kind |-> "object", text |-> b,
        code |-> CASE b[2] = "exp}" -> "QR_CODE_SESSION_OUTDATED"
                   [] b[2] = "err}" -> "ESIA-007110"
                   [] OTHER -> "",
        message |-> IF b[2] = "err}" THEN "m" ELSE ""]
  ELSE IF b = <<"num">>
       THEN [kind |-> "value", text |-> b, code |-> "", message |-> ""]
       ELSE [kind |-> "invalid", text |-> b, code |-> "", message |-> ""]

Skipped == [ret |-> <<"skip">>, exc |-> NoErr]

\* lines 722-759 for one complete line: Skipped for `continue`, else the
\* value returned or the exception raised
handle_line(line_bytes) ==
  LET line == strip(line_bytes) IN
    IF ~startswith_data(line) THEN Skipped
    ELSE LET data_str == strip(SubSeq(line, 3, Len(line))) IN
      IF data_str = <<>> THEN Skipped
      ELSE LET v == json_loads(data_str) IN
        CASE v.kind = "invalid" -> Skipped
          [] v.kind = "value" ->
               [ret |-> <<>>, exc |-> Exc("AttributeError", <<"get">>)]
          [] OTHER ->
               LET e == poll_esia_qr_sse([kind |-> "event", code |-> v.code,
                                          message |-> v.message])
               IN  IF e = NoErr THEN [ret |-> v.text, exc |-> NoErr]
                   ELSE [ret |-> <<>>, exc |-> e]

\* the position of the first newline of b, 0 when it has none
first_lf(b) ==
  IF \E i \in 1..Len(b) : b[i] = "lf"
  THEN CHOOSE i \in 1..Len(b) : b[i] = "lf" /\ \A j \in 1..(i - 1) : b[j] # "lf"
  ELSE 0

\* lines 720-759: `while b"\n" in buffer`: the outcome of the first line
\* that is not skipped, with the buffer that is left
RECURSIVE drain_lines(_)
drain_lines(b) ==
  LET i == first_lf(b) IN
    IF i = 0 THEN [out |-> NoOutcome, buffer |-> b]
    ELSE LET r == handle_line(SubSeq(b, 1, i - 1))
             rest == SubSeq(b, i + 1, Len(b))
         IN  IF r = Skipped THEN drain_lines(rest)
             ELSE [out |-> r, buffer |-> rest]

\* variant of line 718 that forgets the bytes of the earlier reads
append_chunk_forget(buf, chunk) == chunk

\* line 718: buffer += chunk
append_chunk(buf, chunk) == buf \o chunk

\* variant of the `finally` that leaves the connection as it is
finally_close_leak(w) == w

\* lines 765-770: `finally: writer.close()`
finally_close(w) == "closed"

\* the listener ends with this outcome; the `finally` block runs
sse_end(o) ==
  /\ sse_pc' = "done" /\ outcome' = o
  /\ writer' = finally_close(writer)

\* line 693: asyncio.open_connection; when it raises there is no connection
sse_connect ==
  /\ sse_pc = "connect"
  /\ \/ /\ writer' = "open" /\ sse_pc' = "send"
        /\ UNCHANGED outcome
     \/ /\ sse_pc' = "done"
        /\ outcome' = [ret |-> <<>>, exc |-> Exc("OSError", <<"connect">>)]
        /\ UNCHANGED writer
     \/ /\ sse_pc' = "done"
        /\ outcome' = [ret |-> <<>>, exc |-> Exc("CancelledError", <<"connect">>)]
        /\ UNCHANGED writer
  /\ UNCHANGED <<stream, ending, delivered, buffer, elapsed, cut_in_data>>
  /\ UNCHANGED <<progVars, walkVars, pickVars, tripVars, lateVars, kaVars, postVars>>

\* lines 696-709: the request is written and drained
sse_send ==
  /\ sse_pc = "send"
  /\ \/ sse_pc' = "read" /\ UNCHANGED <<writer, outcome>>
     \/ \E t \in {"OSError", "CancelledError"} :
          sse_end([ret |-> <<>>, exc |-> Exc(t, <<"drain">>)])
  /\ UNCHANGED <<stream, ending, delivered, buffer, elapsed, cut_in_data>>
  /\ UNCHANGED <<progVars, walkVars, pickVars, tripVars, lateVars, kaVars, postVars>>

\* a partial `data:` line is held back
holds_data(b) == lstrip(b) # <<>> /\ lstrip(b)[1] = "da"

\* lines 710-764, one pass of `while True`: reader.read hands over the next
\* n bytes after a wait shorter than the timeout, or the end of the stream;
\* wait_for raises TimeoutError when nothing comes for `timeout`
sse_read ==
  /\ sse_pc = "read"
  /\ \/ /\ delivered < Len(stream)
        /\ \E n \in 1..(Len(stream) - delivered), wait \in 0..(SseTimeout - 1) :
             LET chunk == SubSeq(stream, delivered + 1, delivered + n)
                 r == drain_lines(append_chunk(buffer, chunk))
             IN  /\ delivered' = delivered + n
                 /\ elapsed' = elapsed + wait
                 /\ buffer' = r.buffer
                 /\ cut_in_data' = (cut_in_data \/ (r.out = NoOutcome /\ holds_data(r.buffer)))
                 /\ IF r.out = NoOutcome
                    THEN UNCHANGED <<sse_pc, outcome, writer>>
                    ELSE sse_end(r.out)
     \/ /\ delivered = Len(stream) /\ ending = "closed"
        /\ \E wait \in 0..(SseTimeout - 1) : elapsed' = elapsed + wait
        /\ sse_end([ret |-> <<>>, exc |-> Exc("ESIAError", <<"SSE closed by server">>)])
        /\ UNCHANGED <<delivered, buffer, cut_in_data>>
     \/ /\ delivered = Len(stream) /\ ending = "silent"
        /\ elapsed' = elapsed + SseTimeout
        /\ sse_end([ret |-> <<>>, exc |-> Exc("ESIAError", <<"QR scan timeout">>)])
        /\ UNCHANGED <<delivered, buffer, cut_in_data>>
     \/ /\ sse_end([ret |-> <<>>, exc |-> Exc("CancelledError", <<"read">>)])
        /\ UNCHANGED <<delivered, buffer, elapsed, cut_in_data>>
  /\ UNCHANGED <<stream, ending>>
  /\ UNCHANGED <<progVars, walkVars, pickVars, tripVars, lateVars, kaVars, postVars>>

InitSse ==
  /\ InitSession /\ InitCall /\ InitEsia /\ InitQr /\ InitRes /\ InitWalkOff
  /\ InitPickOff /\ InitTripOff /\ InitLateOff /\ InitCounts
  /\ sse_pc = "connect" /\ stream \in SseStreamsOfBytes
  /\ ending \in {"closed", "silent"} /\ delivered = 0
  /\ buffer = <<>> /\ writer = "none" /\ elapsed = 0 /\ cut_in_data = FALSE
  /\ outcome = NoOutcome

NextSse == sse_connect \/ sse_send \/ sse_read

SpecSse == InitSse /\ [][NextSse]_vars

\* =========================================== Redirect-Chain Walker
\* _esia_crosslogin 192-218 and _esia_callback_to_login_state 272-304, one
\* action per request
Hosts == {"sgo", "esia"}
WalkUrls == [host : Hosts, path : {"/a", "/b"}, ls : {0, 1, 2}]

\* the `location` header of a redirect: an absolute URL, a path relative to
\* the URL requested, or none
Locations ==
  [form : {"abs"}, host : Hosts, path : {"/a", "/b"}, ls : {0, 1, 2}]
    \cup [form : {"rel"}, host : {""}, path : {"/a", "/b"}, ls : {0, 1, 2}]
    \cup [form : {"none"}, host : {""}, path : {""}, ls : {0}]

\* variant of the resolution that takes a relative location as it stands
resolve_location_raw(cur, loc) == [host |-> loc.host, path |-> loc.path, ls |-> loc.ls]

\* lines 211-213, 297-299: a location that does not start with "http" is
\* joined to the URL of the response; urljoin with "" gives that URL
resolve_location(cur, loc) ==
  CASE loc.form = "abs" -> [host |-> loc.host, path |-> loc.path, ls |-> loc.ls]
    [] loc.form = "rel" -> [host |-> cur.host, path |-> loc.path, ls |-> loc.ls]
    [] OTHER -> cur

\* `for _ in range(20)` / `for _ in range(15)`
hop_bound(w) == IF w = "crosslogin" THEN crosslogin_hops ELSE callback_hops

\* variant of the loop that never runs out
walk_exhausted_never(w, h) == FALSE

\* the `for` loop is used up
walk_exhausted(w, h) == h >= hop_bound(w)

\* lines 286-291: re.search over str(r.url) + location finds the loginState
\* of the URL before the one of the location
found_login_state(cur, loc, old) ==
  IF cur.ls # 0 THEN cur.ls ELSE IF loc.ls # 0 THEN loc.ls ELSE old

\* the walker returns v
walk_return(v) ==
  /\ walk_pc' = "done" /\ walk_out' = [ret |-> v, exc |-> NoErr]

\* the walker raises
walk_raise(t, m) ==
  /\ walk_pc' = "done" /\ walk_out' = [ret |-> NoUrl, exc |-> Exc(t, m)]

\* lines 300-304: the callback walk returns the loginState, carried here in
\* the `ls` of the value, or raises when it found none
callback_result(u, ls) ==
  IF ls = 0 THEN walk_raise("ESIAError", <<"no loginState">>)
  ELSE walk_return([u EXCEPT !.ls = ls])

\* the walk is over: line 218, lines 300-304
walk_finish(u, ls, how) ==
  /\ ended' = how
  /\ IF walker = "crosslogin" THEN walk_return(u) ELSE callback_result(u, ls)

\* line 201: GET logindata before the crosslogin chain
crosslogin_logindata ==
  /\ walk_pc = "logindata"
  /\ \/ /\ walk_pc' = "hop" /\ UNCHANGED walk_out
     \/ walk_raise("RequestError", <<"logindata">>)
  /\ UNCHANGED <<walker, walk_url, hops, target, sent, rel_seen, ended>>
  /\ UNCHANGED <<progVars, sseVars, pickVars, tripVars, lateVars, kaVars, postVars>>

\* one pass of the loop (204-216, 280-301): the request, the set-cookie
\* headers of the answer, then the redirect or the break; after the last
\* pass the walker returns
walk_hop ==
  /\ walk_pc = "hop"
  /\ IF walk_exhausted(walker, hops)
     THEN /\ walk_finish(walk_url, login_state, "bound")
          /\ UNCHANGED <<walk_url, hops, target, sent, rel_seen, esia_cookies, login_state>>
     ELSE \/ /\ walk_raise("RequestError", <<"get">>)
             /\ UNCHANGED <<walk_url, hops, target, sent, rel_seen, ended,
                            esia_cookies, login_state>>
          \/ /\ hops' = hops + 1
             /\ \E setc \in BOOLEAN :
                  /\ setc => Cardinality(sent) < MaxCookies
                  /\ sent' = IF setc THEN sent \cup {Cardinality(sent) + 1} ELSE sent
                  /\ esia_cookies' =
                       IF setc
                       THEN absorb(esia_cookies, {<<Cardinality(sent) + 1, walk_url.host>>},
                                   "v")
                       ELSE esia_cookies
             /\ \/ \E loc \in Locations :
                     /\ loc.form = "rel" => rel_seen' = TRUE
                     /\ loc.form # "rel" => rel_seen' = rel_seen
                     /\ target' = CASE loc.form = "abs" ->
                                         [host |-> loc.host, path |-> loc.path, ls |-> loc.ls]
                                    [] loc.form = "rel" ->
                                         [host |-> walk_url.host, path |-> loc.path, ls |-> loc.ls]
                                    [] OTHER -> target
                     /\ walk_url' = resolve_location(walk_url, loc)
                     /\ login_state' = IF walker = "callback"
                                       THEN found_login_state(walk_url, loc, login_state)
                                       ELSE login_state
                     /\ UNCHANGED <<walk_pc, walk_out, ended>>
                \/ /\ login_state' = IF walker = "callback"
                                     THEN found_login_state(walk_url, [ls |-> 0], login_state)
                                     ELSE login_state
                   /\ walk_finish(walk_url, login_state', "break")
                   /\ UNCHANGED <<walk_url, target, rel_seen>>
  /\ UNCHANGED walker
  /\ UNCHANGED <<sessVars, callVars, esia_open, copies, qrVars, resVars, sseVars, pickVars, tripVars, lateVars,
                 kaVars, postVars>>

InitWalk ==
  /\ InitSession /\ InitCall /\ InitEsia /\ InitQr /\ InitRes /\ InitSseOff
  /\ InitPickOff /\ InitTripOff /\ InitLateOff /\ InitCounts
  /\ walker \in {"crosslogin", "callback"}
  /\ walk_pc = IF walker = "crosslogin" THEN "logindata" ELSE "hop"
  /\ walk_url \in {u \in WalkUrls : IF walker = "crosslogin"
                               THEN u = [host |-> "sgo", path |-> "/a", ls |-> 0]
                               ELSE u.host = "sgo" /\ u.path = "/b"}
  /\ target = walk_url
  /\ hops = 0 /\ sent = {} /\ rel_seen = FALSE /\ ended = ""
  /\ walk_out = [ret |-> NoUrl, exc |-> NoErr]

NextWalk == crosslogin_logindata \/ walk_hop

SpecWalk == InitWalk /\ [][NextWalk]_vars

\* ============================================== Organization Picker
\* _pick_esia_user 774-817. A string is the sequence of its characters.
NameFields == <<"displayName", "name", "schoolName", "organizationName">>

\* the account-info entries: an id and the name fields, "" for a field that
\* is absent or empty
Candidates ==
  [id : {<<"1">>, <<"2">>},
   displayName : {<<>>, <<"A", "b">>},
   name : {<<>>, <<"b">>},
   schoolName : {<<>>, <<"a">>},
   organizationName : {<<>>, <<"B">>}]

\* the lists of 1..MaxUsers candidates (line 332 turns an empty list away)
UserLists == UNION {[1..n -> Candidates] : n \in 1..MaxUsers}

\* the `school` argument: None, "" or a name
Hints ==
  {[given |-> FALSE, text |-> <<>>]}
    \cup [given : {TRUE},
          text : {<<>>, <<"a">>, <<"B">>, <<"a", "B">>, <<"1">>, <<"c">>}]

\* what is typed at the prompt
Inputs == {<<"1">>, <<"2">>, <<"3">>, <<"0">>, <<"a">>, <<>>}

\* str.lower() of one character and of a string
lower_char(c) == CASE c = "A" -> "a" [] c = "B" -> "b" [] OTHER -> c
lower(str) == [i \in 1..Len(str) |-> lower_char(str[i])]

\* `needle in text`
contains(text, needle) ==
  \E i \in 0..(Len(text) - Len(needle)) :
    \A j \in 1..Len(needle) : text[i + j] = needle[j]

\* first_nonempty(u, k): the `or` chain of lines 789-794 from field k on
RECURSIVE first_nonempty(_, _)
first_nonempty(u, k) ==
  IF k > Len(NameFields) THEN u.id
  ELSE IF u[NameFields[k]] # <<>> THEN u[NameFields[k]]
  ELSE first_nonempty(u, k + 1)

\* lines 788-795
label(u) == first_nonempty(u, 1)

\* line 797
labels_of(us) == [i \in 1..Len(us) |-> label(us[i])]

\* variant of the test of line 785 that never takes the shortcut
single_candidate_never(us) == FALSE

\* line 785
single_candidate(us) == Len(us) = 1

\* line 799: None and "" are both false
truthy(h) == h.given /\ h.text # <<>>

\* lines 801-802: the candidates whose label holds the needle
hint_matches(us, needle) ==
  {i \in 1..Len(us) : contains(lower(label(us[i])), lower(needle))}

\* smallest member of a non-empty set of indexes: the loop of line 801
\* returns at the first hit
first_of(S) == CHOOSE i \in S : \A j \in S : i <= j

\* int(raw) for a string isdigit() accepts
int_of(raw) ==
  CASE raw = <<"0">> -> 0 [] raw = <<"1">> -> 1 [] raw = <<"2">> -> 2 [] OTHER -> 3

\* line 815: raw.isdigit()
isdigit(raw) == raw \in {<<"0">>, <<"1">>, <<"2">>, <<"3">>}

\* lines 804-807: the message names the organization asked for and then the
\* labels
not_found(name, labels) == <<name>> \o labels

pick_return(i) == pick_pc' = "done" /\ picked' = i /\ pick_err' = NoErr

pick_raise(t, m) == pick_pc' = "done" /\ picked' = 0 /\ pick_err' = Exc(t, m)

\* lines 785-812: up to the return, the raise or the first prompt
pick_esia_user ==
  /\ pick_pc = "call"
  /\ IF single_candidate(users) THEN pick_return(1)
     ELSE IF truthy(school_hint)
     THEN IF hint_matches(users, school_hint.text) # {}
          THEN pick_return(first_of(hint_matches(users, school_hint.text)))
          ELSE pick_raise("LoginError", not_found(school_hint.text, labels_of(users)))
     ELSE pick_pc' = "input" /\ UNCHANGED <<picked, pick_err>>
  /\ UNCHANGED <<users, school_hint, prompts>>
  /\ UNCHANGED <<progVars, sseVars, walkVars, tripVars, lateVars, kaVars, postVars>>

\* lines 813-817: one pass of the prompt loop
pick_input ==
  /\ pick_pc = "input"
  /\ prompts < MaxPrompts
  /\ prompts' = prompts + 1
  /\ \E raw \in Inputs :
       IF isdigit(raw) /\ 1 <= int_of(raw) /\ int_of(raw) <= Len(users)
       THEN pick_return(int_of(raw))
       ELSE UNCHANGED <<pick_pc, picked, pick_err>>
  /\ UNCHANGED <<users, school_hint>>
  /\ UNCHANGED <<progVars, sseVars, walkVars, tripVars, lateVars, kaVars, postVars>>

InitPick ==
  /\ InitSession /\ InitCall /\ InitEsia /\ InitQr /\ InitRes
  /\ InitSseOff /\ InitWalkOff /\ InitTripOff /\ InitLateOff /\ InitCounts
  /\ pick_pc = "call" /\ users \in UserLists /\ school_hint \in Hints
  /\ prompts = 0 /\ picked = 0 /\ pick_err = NoErr

NextPick == pick_esia_user \/ pick_input

SpecPick == InitPick /\ [][NextPick]_vars

\* ================================================= HttpSession._send
\* http.py 91-130. Time is counted in tenths of a second: the sleep after a
\* ReadTimeout (line 116) is 1, the sleep after the k-th 5xx (line 121) 2k.
Timeouts == {NoTimeout} \cup [given : {TRUE}, v : (-1)..MaxTimeout]

\* what one send can meet: a response with this status, or httpx.ReadTimeout
Statuses == {200, 302, 401, 404, 500, 503}
Answers == Statuses \cup {0}

\* how long a send takes until its answer, until its ReadTimeout
AnswerTimes == {0, 1}
ReadTimeoutTimes == {1, 4}

\* lines 32 and 100
effective_timeout(ses, call) ==
  IF call.given THEN call.v
  ELSE IF ses.given THEN ses.v ELSE DEFAULT_TIMEOUT

\* line 126: `if effective and effective > 0`
budgeted(eff) == eff # 0 /\ eff > 0

\* asyncio.wait_for(_retry(), effective) fires at time t
budget_hit(eff, t) == budgeted(eff) /\ t >= 10 * eff

\* _check_status 133-135: raise_for_status unless the response is a redirect
is_status_error(st) == st >= 400 /\ st < 600

\* variant of the retry test that retries every status error
may_retry_any(st, n) == st >= 400

\* line 119
may_retry(st, n) == 500 <= st /\ st < 600 /\ n < max_5xx_retries

send_return(st) ==
  /\ send_pc' = "done" /\ send_out' = [ret |-> st, exc |-> NoErr]

send_raise(st, t) ==
  /\ send_pc' = "done" /\ send_out' = [ret |-> st, exc |-> Exc(t, <<"send">>)]

\* TimeoutError at line 129 becomes ServerUnavailable
send_timed_out ==
  /\ send_raise(0, "ServerUnavailable") /\ clock' = 10 * effective

\* with no budget the time is of no consequence
send_time(t) == clock' = IF budgeted(effective) THEN t ELSE clock

\* lines 100-102
send_call ==
  /\ send_pc = "call"
  /\ effective' = effective_timeout(session_timeout, call_timeout)
  /\ retry_5xx' = 0 /\ clock' = 0
  /\ send_pc' = "try"
  /\ UNCHANGED <<nap, session_timeout, call_timeout, sent4, sent5, send_out>>
  /\ UNCHANGED <<progVars, sseVars, walkVars, pickVars, tripVars, lifeVars, authedVars, helperVars, pingVars,
                 kaVars, postVars>>

\* one send of `while True` (106-123) under wait_for (125-130), up to the
\* return, the raise or the sleep
send_try ==
  /\ send_pc = "try"
  /\ \E a \in Answers :
     \E d \in IF a = 0 THEN ReadTimeoutTimes ELSE AnswerTimes :
       IF budget_hit(effective, clock + d)
       THEN /\ send_timed_out
            /\ UNCHANGED <<nap, retry_5xx, sent4, sent5>>
       ELSE /\ sent4' = IF a >= 400 /\ a < 500 THEN sent4 + 1 ELSE sent4
            /\ sent5' = IF a >= 500 THEN sent5 + 1 ELSE sent5
            /\ IF a = 0
               THEN /\ send_pc' = "sleep" /\ nap' = 1
                    /\ send_time(clock + d)
                    /\ UNCHANGED <<retry_5xx, send_out>>
               ELSE IF is_status_error(a)
               THEN IF may_retry(a, retry_5xx)
                    THEN /\ retry_5xx' = retry_5xx + 1
                         /\ send_pc' = "sleep" /\ nap' = 2 * (retry_5xx + 1)
                         /\ send_time(clock + d)
                         /\ UNCHANGED send_out
                    ELSE /\ send_raise(a, "HTTPStatusError")
                         /\ UNCHANGED <<nap, retry_5xx, clock>>
               ELSE /\ send_return(a)
                    /\ UNCHANGED <<nap, retry_5xx, clock>>
  /\ UNCHANGED <<session_timeout, call_timeout, effective>>
  /\ UNCHANGED <<progVars, sseVars, walkVars, pickVars, tripVars, lifeVars, authedVars, helperVars, pingVars,
                 kaVars, postVars>>

\* lines 116 and 121: the sleep ends and the loop goes on, unless the budget
\* runs out first
send_sleep ==
  /\ send_pc = "sleep"
  /\ IF budget_hit(effective, clock + nap)
     THEN send_timed_out
     ELSE /\ send_pc' = "try" /\ send_time(clock + nap) /\ UNCHANGED send_out
  /\ nap' = 0
  /\ UNCHANGED <<session_timeout, call_timeout, effective, retry_5xx, sent4, sent5>>
  /\ UNCHANGED <<progVars, sseVars, walkVars, pickVars, tripVars, lifeVars, authedVars, helperVars, pingVars,
                 kaVars, postVars>>

InitSend ==
  /\ InitSession /\ InitCall /\ InitEsia /\ InitQr /\ InitRes
  /\ InitSseOff /\ InitWalkOff /\ InitPickOff /\ InitTripOff /\ InitLifeOff
  /\ InitHelperOff /\ InitPingOff /\ InitCounts
  /\ send_pc = "call" /\ nap = 0
  /\ session_timeout \in Timeouts /\ call_timeout \in Timeouts
  /\ effective = 0 /\ retry_5xx = 0 /\ clock = 0 /\ sent4 = 0 /\ sent5 = 0
  /\ send_out = [ret |-> 0, exc |-> NoErr]

NextSend == send_call \/ send_try \/ send_sleep

SpecSend == InitSend /\ [][NextSend]_vars

\* the event loop keeps running the coroutine
SpecSendFair == SpecSend /\ WF_vars(NextSend)

\* ================================================ the client between logins
\* logout (1796-1803), close (1805-1808), set_keepalive_interval (1187-1193)
\* and the authed calls _authed_get/_authed_post (1426-1456), called between
\* the caller's logins. The portal's answer to a request is its status, or 0
\* when HttpSession raised ServerUnavailable.
Seconds == {-1, 0, 60}
LogoutAnswers == {200, 401, 500, 0}
AuthedAnswers == {200, 401, 403, 0}

sessData == <<access_token, at_header, student_id, year_id, school_id,
              assignment_types, credentials, cookies>>

\* a lifecycle call starts: the caller awaits one call at a time
LifeStart(name) ==
  /\ Resting /\ authed_pc # "relogin"
  /\ life_ops < MaxLifeOps
  /\ life_ops' = life_ops + 1
  /\ life_last' = name

\* logout 1799-1803: the 401 is swallowed, every other error leaves logout
logout_error(a) ==
  IF a = 0 THEN Exc("ServerUnavailable", <<"send">>)
  ELSE IF is_status_error(a) /\ a # 401 THEN Exc("HTTPStatusError", <<"send">>)
  ELSE NoErr

\* logout 1796-1803: stops the keep-alive, then posts auth/logout
logout ==
  /\ LifeStart("logout") /\ ~http_closed
  /\ StopKeepalive
  /\ \E a \in LogoutAnswers :
       /\ life_out' = logout_error(a)
       /\ logged_out' = IF logout_error(a) = NoErr THEN TRUE ELSE logged_out
  /\ UNCHANGED <<sessData, callVars, esiaVars, qrVars, resVars, sseVars, walkVars,
                 pickVars, tripVars, sendVars, helperVars, pingVars, keepalive_interval, http_closed,
                 authedVars, postVars>>

\* close 1805-1808: awaits logout, then closes the HTTP client
close ==
  /\ LifeStart("close") /\ ~http_closed
  /\ StopKeepalive
  /\ \E a \in LogoutAnswers :
       /\ life_out' = logout_error(a)
       /\ logged_out' = IF logout_error(a) = NoErr THEN TRUE ELSE logged_out
       /\ http_closed' = IF logout_error(a) = NoErr THEN TRUE ELSE http_closed
  /\ UNCHANGED <<sessData, callVars, esiaVars, qrVars, resVars, sseVars, walkVars,
                 pickVars, tripVars, sendVars, helperVars, pingVars, keepalive_interval,
                 authedVars, postVars>>

\* set_keepalive_interval 1187-1193, called inside or outside a running loop
set_keepalive_interval ==
  /\ LifeStart("set_keepalive_interval")
  /\ \E seconds \in Seconds, in_loop \in BOOLEAN :
       /\ keepalive_interval' = seconds
       /\ IF seconds <= 0 THEN StopKeepalive
          ELSE IF access_token # 0 THEN StartKeepalive(in_loop)
          ELSE UNCHANGED <<keepalive_task, tasks, starts>>
  /\ life_out' = NoErr
  /\ UNCHANGED <<sessData, callVars, esiaVars, qrVars, resVars, sseVars, walkVars,
                 pickVars, tripVars, sendVars, helperVars, pingVars, http_closed, logged_out,
                 authedVars, postVars>>

\* variant of the authed call that reports every 401 as SessionExpired
authed_answer_expired(a) ==
  IF a = 0 THEN [ret |-> 0, exc |-> Exc("ServerUnavailable", <<"send">>)]
  ELSE IF a = 401 THEN [ret |-> a, exc |-> Exc("SessionExpired", <<"session expired">>)]
  ELSE IF is_status_error(a) THEN [ret |-> a, exc |-> Exc("HTTPStatusError", <<"send">>)]
  ELSE [ret |-> a, exc |-> NoErr]

\* what self._http.get / post hands to the authed call (1431, 1436, 1440):
\* the response, or the error of HttpSession
authed_answer(a) ==
  IF a = 0 THEN [ret |-> 0, exc |-> Exc("ServerUnavailable", <<"send">>)]
  ELSE IF is_status_error(a) THEN [ret |-> a, exc |-> Exc("HTTPStatusError", <<"send">>)]
  ELSE [ret |-> a, exc |-> NoErr]

\* _authed_get 1426-1440 up to its first await of login(), its return or
\* its raise
authed_call ==
  /\ LifeStart("authed") /\ ~http_closed
  /\ \E a \in AuthedAnswers :
       /\ first_answer' = a /\ resends' = 0 /\ resend_answer' = 0
       /\ authed_creds' = credentials
       /\ IF a = 401 /\ credentials # <<>>
          THEN /\ relogins' = 1
               /\ authed_pc' = "relogin"
               /\ authed_out' = [ret |-> 0, exc |-> NoErr]
               /\ CallCore("login", "login_logindata", credentials[3], NoPayload)
          ELSE /\ relogins' = 0
               /\ authed_pc' = "done"
               /\ authed_out' = IF a = 401
                                THEN [ret |-> a,
                                      exc |-> Exc("SessionExpired", <<"session expired">>)]
                                ELSE authed_answer(a)
               /\ UNCHANGED <<progVars, kaVars, postVars>>
  /\ UNCHANGED <<sseVars, walkVars, pickVars, tripVars, sendVars, helperVars, pingVars, keepalive_interval,
                 http_closed, life_out>>

\* line 1436: login() returned, the request is sent once more
authed_resend ==
  /\ authed_pc = "relogin" /\ pc = "done"
  /\ \E a \in AuthedAnswers :
       /\ resend_answer' = a
       /\ authed_out' = authed_answer(a)
  /\ resends' = resends + 1
  /\ authed_pc' = "done"
  /\ UNCHANGED <<progVars, sseVars, walkVars, pickVars, tripVars, sendVars, helperVars, pingVars, lifeVars,
                 authed_creds, first_answer, relogins, kaVars, postVars>>

\* line 1435: login() raised, and its error leaves the authed call
authed_login_failed ==
  /\ authed_pc = "relogin" /\ pc = "failed"
  /\ authed_out' = [ret |-> 0, exc |-> err]
  /\ authed_pc' = "done"
  /\ UNCHANGED <<progVars, sseVars, walkVars, pickVars, tripVars, sendVars, helperVars, pingVars, lifeVars,
                 authed_creds, first_answer, relogins, resends, resend_answer, kaVars,
                 postVars>>

\* what a ping can be answered: a status, 0 for ServerUnavailable
PingAnswers == {200, 401, 0}

\* variant of the loop that ends with the first failed ping
ping_ends_on_error(a) == IF a = 200 THEN 0 ELSE 1

\* lines 1182-1185: `except Exception: pass`, no ping ends the loop
ping_ends(a) == 0

\* _keepalive_loop 1178-1185, one pass of a live task: after the sleep it
\* sends GET context with the HTTP client itself (no _authed_get), and drops
\* whatever the call raises; a closed client raises at once. An answer may
\* set the session cookie in the main jar.
keepalive_ping ==
  /\ tasks >= 1
  /\ Len(ping_log) < MaxPings
  /\ \E a \in IF http_closed THEN {0} ELSE PingAnswers :
       /\ ping_log' = Append(ping_log, a)
       /\ tasks' = tasks - ping_ends(a)
       /\ keepalive_task' = IF ping_ends(a) = 0 THEN keepalive_task ELSE FALSE
       /\ \/ UNCHANGED cookies
          \/ /\ a = 200
             /\ cookies' = SetCookie(cookies, "NSSESSIONID", g)
  /\ UNCHANGED <<access_token, at_header, student_id, year_id, school_id,
                 assignment_types, credentials, callVars, esiaVars, qrVars, resVars,
                 sseVars, walkVars, pickVars, tripVars, sendVars, helperVars,
                 lifeVars, authedVars, starts, logged_out, postVars>>

LifeSteps ==
  \/ logout \/ close \/ set_keepalive_interval
  \/ authed_call \/ authed_resend \/ authed_login_failed

\* the logins of this client: by password, which keeps the credentials, and
\* by token, which keeps none
LifeLogins ==
  \/ login \/ login_logindata \/ login_getdata \/ login_school \/ login_post
  \/ login_init \/ login_year \/ login_types
  \/ login_with_token \/ token_init
  \/ finish_year \/ finish_context \/ finish_types \/ tail_school

NextLife == LifeLogins \/ LifeSteps

SpecLife == Init /\ [][NextLife]_vars

\* the keep-alive loop next to the caller's operations
NextPing ==
  \/ login \/ login_logindata \/ login_getdata \/ login_school \/ login_post
  \/ login_init \/ login_year \/ login_types
  \/ LifeSteps
  \/ keepalive_ping

SpecPing == Init /\ [][NextPing]_vars

\* ======================================================= _parse_cookies
\* client.py 1314-1327 and the head of login_with_cookies 1274-1282. A Cookie
\* string is the sequence of its characters: "sp" is a blank, "a" a
\* hexadecimal digit, "x" a letter that is none, and "NSSESSIONID" stands for
\* that run of characters.
CookieChars == {"sp", ";", "=", "NSSESSIONID", "a"}
HexDigits == {"a"}
NSSESSIONID == <<"NSSESSIONID">>

Run(c, n) == [i \in 1..n |-> c]

\* the strings given to login_with_cookies: every short one, and the ones
\* around a bare session id
CookieStrings ==
  UNION {[1..n -> CookieChars] : n \in 0..MaxCookieLen}
    \cup { Run("a", session_id_digits), Run("a", session_id_digits - 1),
           Run("a", session_id_digits + 1),
           Run("a", session_id_digits - 1) \o <<"x">>,
           <<"sp">> \o Run("a", session_id_digits) \o <<"sp">>,
           Run("a", session_id_digits) \o <<";">> }

\* line 1319: re.fullmatch(r"[0-9a-fA-F]{32}", raw)
fullmatch_hex(raw) ==
  Len(raw) = session_id_digits /\ \A i \in 1..Len(raw) : raw[i] \in HexDigits

\* str.find: the first index of the character, 0 when there is none
index_of(str, c) ==
  IF \E i \in 1..Len(str) : str[i] = c
  THEN first_of({i \in 1..Len(str) : str[i] = c})
  ELSE 0

\* str.split(sep)
RECURSIVE split(_, _)
split(str, sep) ==
  IF index_of(str, sep) = 0 THEN <<str>>
  ELSE <<SubSeq(str, 1, index_of(str, sep) - 1)>>
         \o split(SubSeq(str, index_of(str, sep) + 1, Len(str)), sep)

\* str.partition(sep): head, separator, tail
partition(str, sep) ==
  IF index_of(str, sep) = 0 THEN <<str, <<>>, <<>>>>
  ELSE <<SubSeq(str, 1, index_of(str, sep) - 1), <<sep>>,
         SubSeq(str, index_of(str, sep) + 1, Len(str))>>

\* result[key] = value on a dict kept as its <<key, value>> items
dict_set(items, key, val) == {p \in items : p[1] # key} \cup {<<key, val>>}

\* lines 1322-1326: the loop over the parts
RECURSIVE parse_parts(_, _)
parse_parts(parts, found) ==
  IF parts = <<>> THEN found
  ELSE LET part == strip(Head(parts))
           kv == partition(part, "=")
       IN parse_parts(Tail(parts),
                      IF index_of(part, "=") # 0
                      THEN dict_set(found, strip(kv[1]), strip(kv[3]))
                      ELSE found)

\* variant of _parse_cookies that returns whatever pairs it found
parse_cookies_any(raw) ==
  IF strip(raw) = <<>> THEN {}
  ELSE IF fullmatch_hex(strip(raw)) THEN {<<NSSESSIONID, strip(raw)>>}
  ELSE parse_parts(split(strip(raw), ";"), {})

\* _parse_cookies 1314-1327
parse_cookies(raw) ==
  IF strip(raw) = <<>> THEN {}
  ELSE IF fullmatch_hex(strip(raw)) THEN {<<NSSESSIONID, strip(raw)>>}
  ELSE IF \E p \in parse_parts(split(strip(raw), ";"), {}) : p[1] = NSSESSIONID
       THEN parse_parts(split(strip(raw), ";"), {})
       ELSE {}

sessNoJar == <<access_token, at_header, student_id, year_id, school_id,
               assignment_types, credentials, keepalive_task>>

\* login_with_cookies 1274-1282: the string is parsed; an empty dict raises,
\* the items of any other are set in the main jar
cookies_parse ==
  /\ call_pc = "call"
  /\ helper_ret' = parse_cookies(helper_arg)
  /\ IF parse_cookies(helper_arg) = {}
     THEN /\ call_err' = Exc("LoginError", <<"no cookies">>)
          /\ call_pc' = "done"
          /\ UNCHANGED cookies
     ELSE /\ cookies' = set_cookies(cookies, parse_cookies(helper_arg))
          /\ call_pc' = "request"
          /\ UNCHANGED call_err
  /\ UNCHANGED <<helper_arg, requests>>
  /\ UNCHANGED <<sessNoJar, callVars, esiaVars, qrVars, resVars, sseVars, walkVars,
                 pickVars, tripVars, sendVars, pingVars, lifeVars, authedVars, kaVars, postVars>>

\* lines 1284-1287 (and 1230 of login_with_token): the first request of the
\* procedure, student/diary/init
cookies_request ==
  /\ call_pc = "request"
  /\ requests' = requests + 1
  /\ call_pc' = "done"
  /\ UNCHANGED <<helper_arg, helper_ret, call_err>>
  /\ UNCHANGED <<progVars, sseVars, walkVars, pickVars, tripVars, sendVars, pingVars, lifeVars,
                 authedVars, kaVars, postVars>>

InitCookies ==
  /\ InitSession /\ InitCall /\ InitEsia /\ InitQr /\ InitRes
  /\ InitSseOff /\ InitWalkOff /\ InitPickOff /\ InitTripOff /\ InitSendOff
  /\ InitLifeOff /\ InitPingOff /\ InitCounts
  /\ call_pc = "call" /\ helper_arg \in CookieStrings /\ helper_ret = {}
  /\ call_err = NoErr /\ requests = 0

NextCookies == cookies_parse \/ cookies_request

SpecCookies == InitCookies /\ [][NextCookies]_vars

\* ============================ _extract_access_token_from_session_store
\* client.py 1329-1354 and login_with_session_store 1248-1261. A text is
\* [valid, doc]: whether json.loads accepts it and the value it then gives;
\* a value is [kind, body]: an object with its members, a list with its
\* items, a string with the text it holds, or a number. A member is "None"
\* when absent or null, "" when an empty string, "False" and "True" for the
\* booleans, and any other string is itself.
NoDoc == [kind |-> "num", body |-> <<>>]
NotJson == [valid |-> FALSE, doc |-> NoDoc]

\* the entries of a stored list: objects, and a number among them
StoreEntries ==
  [isdict : {TRUE}, active : {"None", "True", "False"},
   accessToken : {"None", "", "tok1", "tok2"}, at : {"None"}]
    \cup {[isdict |-> FALSE, active |-> "None", accessToken |-> "None", at |-> "None"]}

StoreObjects ==
  [isdict : {TRUE}, active : {"None"},
   accessToken : {"None", "", "tok1"}, at : {"None", "", "tok2"}]

StoreDocs ==
  {[kind |-> "dict", body |-> <<o>>] : o \in StoreObjects}
    \cup {[kind |-> "list", body |-> l] :
            l \in UNION {[1..n -> StoreEntries] : n \in 0..MaxEntries}}
    \cup {NoDoc}

\* json.dumps(v)
json_dumps(v) == [valid |-> TRUE, doc |-> v]

\* the session stores: no JSON, a document, and a document encoded twice or
\* three times
PlainStores == {NotJson} \cup {json_dumps(v) : v \in StoreDocs}
TwiceStores == {json_dumps([kind |-> "str", body |-> <<t>>]) : t \in PlainStores}
SessionStores ==
  PlainStores \cup TwiceStores
    \cup {json_dumps([kind |-> "str", body |-> <<t>>]) :
            t \in {u \in TwiceStores : u.doc.body[1].doc.kind = "dict"}}

\* bool(v) of a member
is_true(v) == v \notin {"None", "", "False"}

\* variant of the list search without the pass over the active entries
list_token_any(items) ==
  IF \E i \in 1..Len(items) : items[i].isdict /\ is_true(items[i].accessToken)
  THEN items[first_of({i \in 1..Len(items) :
                         items[i].isdict /\ is_true(items[i].accessToken)})].accessToken
  ELSE "None"

\* lines 1348-1353: the two passes over a list
list_token(items) ==
  IF \E i \in 1..Len(items) :
       items[i].isdict /\ is_true(items[i].active) /\ is_true(items[i].accessToken)
  THEN items[first_of({i \in 1..Len(items) :
                         /\ items[i].isdict /\ is_true(items[i].active)
                         /\ is_true(items[i].accessToken)})].accessToken
  ELSE IF \E i \in 1..Len(items) : items[i].isdict /\ is_true(items[i].accessToken)
  THEN items[first_of({i \in 1..Len(items) :
                         items[i].isdict /\ is_true(items[i].accessToken)})].accessToken
  ELSE "None"

\* lines 1345-1354: the token of the decoded value
doc_token(v) ==
  IF v.kind = "dict"
  THEN IF is_true(v.body[1].accessToken) THEN v.body[1].accessToken ELSE v.body[1].at
  ELSE IF v.kind = "list" THEN list_token(v.body)
  ELSE "None"

\* _extract_access_token_from_session_store 1329-1354
extract_access_token_from_session_store(text) ==
  IF ~text.valid THEN "None"
  ELSE IF text.doc.kind = "str"
  THEN IF ~text.doc.body[1].valid THEN "None" ELSE doc_token(text.doc.body[1].doc)
  ELSE doc_token(text.doc)

\* login_with_session_store 1256-1261 and login_with_token 1227-1228: no
\* token raises; a token is stored and sent with the identity-init request
session_store_login ==
  /\ call_pc = "call"
  /\ helper_ret' = extract_access_token_from_session_store(helper_arg)
  /\ IF ~is_true(extract_access_token_from_session_store(helper_arg))
     THEN /\ call_err' = Exc("LoginError", <<"no accessToken">>)
          /\ call_pc' = "done"
          /\ UNCHANGED <<access_token, at_header>>
     ELSE /\ access_token' = extract_access_token_from_session_store(helper_arg)
          /\ at_header' = extract_access_token_from_session_store(helper_arg)
          /\ call_pc' = "request"
          /\ UNCHANGED call_err
  /\ UNCHANGED <<helper_arg, requests>>
  /\ UNCHANGED <<student_id, year_id, school_id, assignment_types, credentials, cookies,
                 keepalive_task, callVars, esiaVars, qrVars, resVars, sseVars, walkVars,
                 pickVars, tripVars, sendVars, pingVars, lifeVars, authedVars, kaVars, postVars>>

InitStore ==
  /\ InitSession /\ InitCall /\ InitEsia /\ InitQr /\ InitRes
  /\ InitSseOff /\ InitWalkOff /\ InitPickOff /\ InitTripOff /\ InitSendOff
  /\ InitLifeOff /\ InitPingOff /\ InitCounts
  /\ call_pc = "call" /\ helper_arg \in SessionStores /\ helper_ret = "None"
  /\ call_err = NoErr /\ requests = 0

\* the first request of either procedure is student/diary/init
NextStore == session_store_login \/ cookies_request

SpecStore == InitStore /\ [][NextStore]_vars

\* =============================================================== get_url
\* regions.py 57-84 and the head of search_schools / get_login_methods
\* (client.py 1853-1863, 1910-1918). A name is the sequence of its
\* characters. The table is an abridged REGIONS: names that share a word, as
\* the republics do, names no other contains, and one that another contains.
REGIONS ==
  << <<<<"A", "b">>, "https://ab">>,
     <<<<"A", "b", " ", "c">>, "https://ab-c">>,
     <<<<"B", "a", " ", "c">>, "https://ba-c">>,
     <<<<"c", "a", "a">>, "https://caa">> >>

QueryChars == {"A", "a", "B", "b", "c", " "}

\* the `url` arguments: names, parts of names and other text, and URLs
RegionArgs ==
  UNION {[1..n -> QueryChars] : n \in 0..MaxQueryLen}
    \cup {REGIONS[i][1] : i \in 1..Len(REGIONS)}
    \cup {lower(REGIONS[i][1]) : i \in 1..Len(REGIONS)}
    \cup {<<"http://", "a">>, <<"https://", "A", "b">>}

\* url.startswith(("http://", "https://"))
startswith_http(str) == str # <<>> /\ str[1] \in {"http://", "https://"}

\* variant of get_url that searches by substring only
get_url_substring(query) ==
  IF Cardinality({i \in 1..Len(REGIONS) : contains(lower(REGIONS[i][1]), lower(query))}) = 1
  THEN REGIONS[first_of({i \in 1..Len(REGIONS) :
                           contains(lower(REGIONS[i][1]), lower(query))})][2]
  ELSE "None"

\* get_url 57-84
get_url(query) ==
  IF \E i \in 1..Len(REGIONS) : lower(REGIONS[i][1]) = lower(query)
  THEN REGIONS[first_of({i \in 1..Len(REGIONS) :
                           lower(REGIONS[i][1]) = lower(query)})][2]
  ELSE IF Cardinality({i \in 1..Len(REGIONS) :
                         contains(lower(REGIONS[i][1]), lower(query))}) = 1
  THEN REGIONS[first_of({i \in 1..Len(REGIONS) :
                           contains(lower(REGIONS[i][1]), lower(query))})][2]
  ELSE "None"

\* search_schools 1853-1863, get_login_methods 1910-1918: an argument that
\* is no URL is resolved, and ValueError raised when it resolves to None
region_resolve ==
  /\ call_pc = "call"
  /\ IF startswith_http(helper_arg)
     THEN /\ helper_ret' = helper_arg
          /\ call_pc' = "request"
          /\ UNCHANGED call_err
     ELSE IF get_url(helper_arg) = "None"
     THEN /\ helper_ret' = "None"
          /\ call_err' = Exc("ValueError", <<"no URL for region">>)
          /\ call_pc' = "done"
     ELSE /\ helper_ret' = get_url(helper_arg)
          /\ call_pc' = "request"
          /\ UNCHANGED call_err
  /\ UNCHANGED <<helper_arg, requests>>
  /\ UNCHANGED <<progVars, sseVars, walkVars, pickVars, tripVars, sendVars, pingVars, lifeVars,
                 authedVars, kaVars, postVars>>

\* 1865-1873, 1920-1925: a session is opened on the URL, the request sent
\* and the session closed
region_request ==
  /\ call_pc = "request"
  /\ requests' = requests + 1
  /\ call_pc' = "done"
  /\ UNCHANGED <<helper_arg, helper_ret, call_err>>
  /\ UNCHANGED <<progVars, sseVars, walkVars, pickVars, tripVars, sendVars, pingVars, lifeVars,
                 authedVars, kaVars, postVars>>

InitRegions ==
  /\ InitSession /\ InitEsia /\ InitQr /\ InitRes
  /\ op \in {"search_schools", "get_login_methods"} /\ pc = "idle" /\ g = 1
  /\ school_arg = "none" /\ payload = NoPayload /\ err = NoErr /\ pre = Session
  /\ ops = 0
  /\ InitSseOff /\ InitWalkOff /\ InitPickOff /\ InitTripOff /\ InitSendOff
  /\ InitLifeOff /\ InitPingOff /\ InitCounts
  /\ call_pc = "call" /\ helper_arg \in RegionArgs /\ helper_ret = "None"
  /\ call_err = NoErr /\ requests = 0

NextRegions == region_resolve \/ region_request

SpecRegions == InitRegions /\ [][NextRegions]_vars

\* ============================================================ claims
FedOps == {"login_via_gosuslugi", "login_via_gosuslugi_qr"}

\* the positions of a federated login before PORTAL_TOKEN_OBTAINED
PreTransfer == {"gos_start", "gos_login", "qr_start", "qr_rewalk", "qr_generate",
                "qr_show", "qr_poll", "fed_resolve", "fed_callback",
                "fed_logindata", "fed_account_info", "fed_idp"}

\* C1: a login procedure that raised left the Session (token, `at` header,
\* student, year and school ids, assignment types, credentials, main cookie
\* jar) as it was when the call started.
C1_FailureRestoresSession == pc = "failed" => Session = pre

\* C2: in a federated login nothing of the Session or of the main cookie
\* jar changes before Session Transfer, so a flow that ends before it leaves
\* them as they were; cookies are copied from the external jar at most once,
\* and not while the flow is at or before the IDP exchange.
C2_OnlyTransferTouchesSession ==
  op \in FedOps =>
    /\ copies <= 1
    /\ copies = 0 => Session = pre
    /\ pc \in PreTransfer => copies = 0

\* a second call, federated, failed at the IDP exchange (no token) with
\* cookies in the external jar, after a first call had filled the Session
C2_Witness ==
  /\ op \in FedOps /\ pc = "failed" /\ copies = 0
  /\ err = Exc("LoginError", <<"no at">>) /\ login_state # 0
  /\ esia_cookies # {} /\ access_token # 0 /\ cookies # {}

\* the passes made by the step drivers that are suspended in the anomaly
\* handler
RECURSIVE passes(_)
passes(st) == IF st = <<>> THEN 0 ELSE Head(st).i + passes(Tail(st))

\* C3: one resolution stays within the step driver's cap: the drivers
\* suspended and the driver running have together made no more than
\* PostMfaMaxSteps passes, so the requests of a resolution are bounded.
C3_ResolutionWithinCap == passes(stack) + iter <= PostMfaMaxSteps

\* C4 as stated: the driver gives up on an echoed action only when its
\* bound of passes is reached.
C4_EchoFailsAtBound ==
  (rpc = "raised" /\ rerr.msg \in {<<"unknown step">>, <<"too many steps">>})
    => iter = PostMfaMaxSteps

\* C4: a step driver makes at most PostMfaMaxSteps passes; it raises "too
\* many steps" after exactly that many, and raises "unknown step" within
\* the bound, in the pass whose next-step answer repeats an action it has no
\* branch for.
C4_DriverBound ==
  /\ iter <= PostMfaMaxSteps
  /\ (rpc = "raised" /\ rerr.msg = <<"too many steps">>) => iter = PostMfaMaxSteps
  /\ (rpc = "raised" /\ rerr.msg = <<"unknown step">>) =>
       /\ iter < PostMfaMaxSteps
       /\ data.action \notin {"DONE", "MAX_QUIZ", "CHANGE_PASSWORD",
                              "SOLVE_ANOMALY_REACTION"}

\* the broker echoed CHANGE_PASSWORD until the bound
C4_Witness ==
  /\ rpc = "raised" /\ rerr.msg = <<"too many steps">>
  /\ iter = PostMfaMaxSteps /\ data.action = "CHANGE_PASSWORD"

\* the non-empty values of the redirect fields of an answer
UrlsOf(d) ==
  ({d.top[f] : f \in Range(TopFields)}
     \cup (IF d.data_is_dict THEN {d.nested[f] : f \in Range(NestedFields)} ELSE {}))
    \ {""}

\* C5: while no request has been made `data` is the login answer; when it
\* carries a redirect URL under a recognised field, the resolver has either
\* not run yet or has returned one of those URLs itself, without a request,
\* whatever the action.
C5_DirectRedirect ==
  (~requested /\ UrlsOf(data) # {}) =>
    \/ rpc = "resolve"
    \/ rpc = "returned" /\ ret_from = "resolve" /\ result \in UrlsOf(data)

\* an ENTER_MFA answer whose only URL is nested under `data` was returned
C5_Witness ==
  /\ rpc = "returned" /\ ret_from = "resolve" /\ ~requested
  /\ data.action = "ENTER_MFA"
  /\ \A f \in Range(TopFields) : data.top[f] = ""
  /\ data.nested["redirectURL"] = "/b" /\ result = "/b"

\* C6: resolution never returns an empty URL, and DONE without a redirect
\* URL raises ESIAError.
C6_NeverEmptyUrl ==
  /\ rpc = "returned" => result # ""
  /\ (rpc = "raised" /\ rerr.msg = <<"DONE without redirect_url">>) =>
       rerr.type = "ESIAError"

\* the listener's error for an expired QR session
IsExpiredClass(e) == e.type = "ESIAError" /\ \E c \in ExpiredCodes : Contains(e.msg, c)

\* C7: a "session expired" error of the listener before the last attempt
\* does not end the login: the orchestrator retries.
C7_ExpiredIsRetried ==
  (op = "login_via_gosuslugi_qr" /\ IsExpiredClass(sse_err)
     /\ qr_attempt < max_qr_retries) => pc # "failed"

\* C8: at most max_qr_retries exchanges are generated, and a listener error
\* that is not of the "session expired" class ends the login at once.
C8_OtherErrorsEndLogin ==
  op = "login_via_gosuslugi_qr" =>
    /\ Len(gens) <= max_qr_retries
    /\ (sse_err # NoErr /\ ~IsExpiredClass(sse_err)) => pc = "failed"

\* C9: every exchange after the first is generated after the cookies were
\* cleared and the crosslogin chain walked again; each subscription is for
\* the qr_id of its own generation, and no qr_id is subscribed to twice.
C9_WholeExchangeRegenerated ==
  op = "login_via_gosuslugi_qr" =>
    /\ Len(gens) <= qr_attempt
    /\ pc \in {"qr_show", "qr_poll"} =>
         /\ Len(gens) = qr_attempt
         /\ clears = qr_attempt - 1
         /\ walks = qr_attempt
    /\ Len(subs) <= Len(gens)
    /\ \A k \in 1..Len(subs) : subs[k] = gens[k].qr_id
    /\ \A i, j \in 1..Len(subs) : i # j => subs[i] # subs[j]

\* the third exchange has been subscribed to
C9_Witness ==
  /\ op = "login_via_gosuslugi_qr" /\ Len(subs) = 3 /\ qr_attempt = 3
  /\ clears = 2 /\ walks = 3

\* the generations that returned a signed_token and a qr_id
Generated == {k \in 1..Len(gens) : gens[k].signed_token # 0 /\ gens[k].qr_id # 0}

\* C10: the deep-link is shown once per generation that returned a
\* signed_token and a qr_id, built from that signed_token, after the answer
\* and before the subscription for its qr_id; never for another generation.
C10_ShownOncePerGeneration ==
  op = "login_via_gosuslugi_qr" =>
    /\ Len(shown) = Cardinality(Generated) - (IF pc = "qr_show" THEN 1 ELSE 0)
    /\ \A k \in 1..Len(shown) :
         /\ k \in Generated
         /\ shown[k] = <<"gosuslugi://auth/signed_token=", gens[k].signed_token>>
    /\ Len(subs) <= Len(shown)
    /\ pc = "qr_poll" => Len(subs) = Len(shown) - 1

\* the second exchange's deep-link was shown and its subscription not yet
\* opened
C10_Witness ==
  /\ op = "login_via_gosuslugi_qr" /\ pc = "qr_poll"
  /\ Len(shown) = 2 /\ Len(subs) = 1 /\ shown[2][2] = gens[2].signed_token

\* what ends the listener when no line of the stream decides
stream_end(e) ==
  IF e = "closed"
  THEN [ret |-> <<>>, exc |-> Exc("ESIAError", <<"SSE closed by server">>)]
  ELSE [ret |-> <<>>, exc |-> Exc("ESIAError", <<"QR scan timeout">>)]

\* the listener ran to its own end: it was neither cancelled nor cut off
\* by the socket
SseEnded == sse_pc = "done" /\ outcome.exc.type \notin {"OSError", "CancelledError"}

\* the outcome when the whole stream arrives in one read
single_read(st, e) ==
  LET r == drain_lines(st) IN IF r.out # NoOutcome THEN r.out ELSE stream_end(e)

\* C11: however the byte stream is cut into reads, the listener ends as it
\* does when the stream arrives in a single read: same payload, same error.
C11_ChunkingIndependent == SseEnded => outcome = single_read(stream, ending)

\* a payload was returned after a read had ended inside a `data:` line
C11_Witness == SseEnded /\ cut_in_data /\ outcome.ret # <<>>

\* the complete lines of a byte stream
RECURSIVE lines_of(_)
lines_of(b) ==
  LET i == first_lf(b) IN
    IF i = 0 THEN <<>>
    ELSE <<SubSeq(b, 1, i - 1)>> \o lines_of(SubSeq(b, i + 1, Len(b)))

\* the text after `data:` of a line, <<>> when it is no `data:` line
data_of(line) ==
  IF startswith_data(strip(line)) THEN strip(SubSeq(strip(line), 3, Len(strip(line))))
  ELSE <<>>

\* a complete `data:` line holding valid JSON
usable(line) == data_of(line) # <<>> /\ json_loads(data_of(line)).kind # "invalid"

\* what the listener is to do with such a line
decision(line) ==
  LET v == json_loads(data_of(line)) IN
    IF v.code \in ExpiredCodes
    THEN [ret |-> <<>>, exc |-> Exc("ESIAError", <<"QR session expired: ", v.code>>)]
    ELSE IF v.code # ""
         THEN [ret |-> <<>>,
               exc |-> Exc("ESIAError",
                           <<"ESIA error at QR login: ", v.code, " - ", v.message>>)]
         ELSE [ret |-> v.text, exc |-> NoErr]

\* C12: the first complete `data:` line holding valid JSON decides: expired
\* code, other code, or the value returned as the payload; every other line
\* is skipped and nothing after the deciding line is read.
C12_FirstEventDecides ==
  SseEnded =>
    LET ls == lines_of(stream)
        us == {k \in 1..Len(ls) : usable(ls[k])}
    IN  IF us = {} THEN outcome = stream_end(ending)
        ELSE LET k == CHOOSE k \in us : \A j \in us : k <= j
             IN  /\ outcome = decision(ls[k])
                 /\ delivered >= Len(concat_lines(SubSeq(ls, 1, k)))

\* C13: when the listener has ended, by any exit, a connection that was
\* opened is closed; only a failed or cancelled open_connection leaves none.
C13_ConnectionClosed ==
  sse_pc = "done" =>
    /\ writer # "open"
    /\ writer = "none" => outcome.exc.msg = <<"connect">>

\* the listener was cancelled while it waited for bytes
C13_Witness ==
  /\ sse_pc = "done" /\ outcome.exc = Exc("CancelledError", <<"read">>)
  /\ writer = "closed" /\ delivered > 0

\* C14: the timeout bounds the whole read loop: the listener is not still
\* reading when more than `timeout` has passed since reading started.
C14_TimeoutBoundsLoop == sse_pc = "read" => elapsed <= SseTimeout

C16_WalkBounded ==
  /\ hops <= hop_bound(walker)
  /\ (walk_pc = "done" /\ ended = "bound") =>
       /\ hops = hop_bound(walker)
       /\ walker = "crosslogin" => walk_out = [ret |-> walk_url, exc |-> NoErr]

\* the server redirected every request of a crosslogin walk
C16_Witness ==
  /\ walk_pc = "done" /\ walker = "crosslogin" /\ ended = "bound"
  /\ hops = crosslogin_hops /\ walk_out.exc = NoErr

\* C17: with exactly one candidate the picker returns it whatever the hint
\* is (absent, empty, matching, matching nothing), raises nothing and never
\* prompts.
C17_SingleCandidateReturned ==
  Len(users) = 1 =>
    /\ pick_pc # "input" /\ prompts = 0
    /\ pick_pc = "done" => picked = 1 /\ pick_err = NoErr

\* one candidate and a hint its label does not hold
C17_Witness ==
  /\ pick_pc = "done" /\ Len(users) = 1 /\ picked = 1
  /\ truthy(school_hint) /\ hint_matches(users, school_hint.text) = {}

\* C18: with several candidates and a hint, the picker returns a candidate
\* exactly when one label holds the hint (case-insensitively), and that one;
\* a hint no label holds raises LoginError listing the labels; a hint that
\* several labels hold raises LoginError too.
C18_HintArbitrated ==
  (pick_pc = "done" /\ Len(users) > 1 /\ truthy(school_hint)) =>
    LET M == hint_matches(users, school_hint.text)
    IN /\ Cardinality(M) = 1 => picked \in M /\ pick_err = NoErr
       /\ M = {} => /\ picked = 0
                    /\ pick_err.type = "LoginError"
                    /\ \A i \in 1..Len(users) :
                         Contains(pick_err.msg, label(users[i]))
       /\ Cardinality(M) > 1 => picked = 0 /\ pick_err.type = "LoginError"

\* C19: when the import of an exported session has finished on a fresh
\* client, that client holds the student, year and school ids, the access
\* token and the cookies the exporting client held.
C19_RoundTrip ==
  (op = "import_session" /\ pc = "done") =>
    /\ student_id = exporter.student_id
    /\ year_id = exporter.year_id
    /\ school_id = exporter.school_id
    /\ access_token = exporter.access_token
    /\ cookies = exporter.cookies

\* the step in which the identity-init call of import_session or
\* login_with_cookies failed
InitCallFailed ==
  /\ pc \in {"import_init", "cookies_init"} /\ pc' = "failed"
  /\ Contains(err'.msg, "student/diary/init")

\* C20: import_session and login_with_cookies finish only with the student
\* the identity-init call named, and a failure of that call, whatever it is,
\* leaves them as SessionExpired, which is no LoginError, with no keep-alive
\* task started.
C20_InitFailureIsSessionExpired ==
  /\ []((op \in {"import_session", "login_with_cookies"} /\ pc = "done")
          => student_id = g)
  /\ [][InitCallFailed =>
          /\ err'.type = "SessionExpired" /\ ~IsLoginError(err')
          /\ keepalive_task' = keepalive_task]_vars

\* the init call of an import on a fresh client failed
C20_Witness ==
  /\ op = "import_session" /\ pc = "failed" /\ ops = 1
  /\ err = Exc("SessionExpired", <<"student/diary/init">>)
  /\ access_token # 0 /\ ~keepalive_task

\* C27: within one request no send follows a 4xx answer, at most
\* max_5xx_retries + 1 sends are answered 5xx, the sleep before the k-th
\* retry is k times the first, and the last 5xx answer raises the HTTP
\* status error.
C27_BoundedStatusRetries ==
  /\ sent4 <= 1 /\ sent5 <= max_5xx_retries + 1
  /\ send_pc = "sleep" => nap \in {1, 2 * retry_5xx}
  /\ sent4 = 1 =>
       /\ send_pc = "done" /\ send_out.exc.type = "HTTPStatusError"
       /\ send_out.ret \in 400..499
  /\ sent5 = max_5xx_retries + 1 =>
       /\ send_pc = "done" /\ send_out.exc.type = "HTTPStatusError"
       /\ send_out.ret \in 500..599

\* the server answered 5xx every time and the budget allowed four sends
C27_Witness ==
  /\ send_pc = "done" /\ sent5 = 4 /\ sent4 = 0 /\ retry_5xx = 3
  /\ send_out = [ret |-> 503, exc |-> Exc("HTTPStatusError", <<"send">>)]

\* C28: every request ends, by returning or by raising.
C28_SendEnds == <>(send_pc = "done")

\* the step creates a keep-alive task
TaskStarted == starts' # starts

\* the step ends a login procedure with the student, the year and the
\* assignment types the portal named during this call
LoginCompleted ==
  /\ pc' = "done" /\ pc # "done"
  /\ student_id' = g /\ year_id' = g /\ assignment_types' = {g}

C25_FailedFieldEndsLogin ==
  /\ []((op = "login_via_gosuslugi" /\ failed_code # "") =>
          /\ pc = "failed" /\ posts = 1
          /\ err.type = "ESIAError" /\ IsLoginError(err)
          /\ Contains(err.msg, "ESIA error: ")
          /\ failed_code \in KnownFailedCodes => ~Contains(err.msg, failed_code)
          /\ failed_code \notin KnownFailedCodes => Contains(err.msg, failed_code)
          /\ login_state = 0 /\ copies = 0 /\ Session = pre /\ ~esia_open)
  /\ [](op = "login_via_gosuslugi" => posts <= 1)
  /\ [][(op = "login_via_gosuslugi" /\ pc = "failed") =>
          (pc' = "failed" \/ ops' = ops + 1)]_vars

\* the broker answered the credentials with ACCOUNT_LOCKED
C25_Witness ==
  /\ op = "login_via_gosuslugi" /\ pc = "failed" /\ failed_code = "ACCOUNT_LOCKED"
  /\ err = Exc("ESIAError", <<"ESIA error: ", "account locked">>) /\ posts = 1

LogoutCompleted ==
  life_ops' # life_ops /\ life_last' = "logout" /\ life_out' = NoErr

\* C21: when logout() completes on a client whose login succeeded, the
\* Session is cleared: no access token, no `at` header, no keep-alive task.
C21_LogoutClearsSession ==
  [][(LogoutCompleted /\ pc = "done") =>
       /\ access_token' = 0 /\ at_header' = 0
       /\ ~keepalive_task' /\ tasks' = 0]_vars

\* C22: once logout() or close() has completed on a client whose login
\* succeeded, no keep-alive task is active until a login succeeds again,
\* whatever is called in between.
C22_NoTaskAfterLogout ==
  (logged_out /\ pc = "done") => (tasks = 0 /\ ~keepalive_task)

\* C29: after set_keepalive_interval with seconds <= 0 no keep-alive task is
\* active until it is called with a positive value.
C29_DisabledStaysDisabled == keepalive_interval <= 0 => (tasks = 0 /\ ~keepalive_task)

\* the step ends a close() call, by return or by exception
CloseEnded == life_ops' # life_ops /\ life_last' = "close"

\* C30: when close() ends, however its logout went, the HTTP client is
\* closed and no keep-alive task is active.
C30_CloseAlwaysCloses ==
  [][CloseEnded => (http_closed' /\ tasks' = 0 /\ ~keepalive_task')]_vars

\* the exception an answer of HttpSession stands for
raised_for(a) ==
  IF a = 0 THEN "ServerUnavailable" ELSE IF a >= 400 THEN "HTTPStatusError" ELSE "none"

\* an authed call that got no 401 hands its answer to the caller and calls
\* no login; one that got a 401 on a client without credentials raises
\* SessionExpired and calls no login
AuthedPlain ==
  /\ (authed_pc = "done" /\ first_answer # 401) =>
        /\ relogins = 0 /\ resends = 0
        /\ authed_out.ret = first_answer
        /\ authed_out.exc.type = raised_for(first_answer)
  /\ (authed_pc = "done" /\ first_answer = 401 /\ authed_creds = <<>>) =>
        /\ relogins = 0 /\ resends = 0
        /\ authed_out.exc.type = "SessionExpired"

\* the re-send's answer is the caller's, a second 401 included
ResentOnce ==
  /\ resends = 1
  /\ authed_out.ret = resend_answer
  /\ authed_out.exc.type = raised_for(resend_answer)

\* C26 as stated: a 401 on a client with credentials is followed by exactly
\* one login() and exactly one re-send, whose response or error the caller
\* gets; without credentials SessionExpired is raised and no login is
\* attempted; every other answer reaches the caller unchanged.
C26_ReloginThenResend ==
  /\ AuthedPlain
  /\ (authed_pc = "done" /\ first_answer = 401 /\ authed_creds # <<>>) =>
        (relogins = 1 /\ ResentOnce)

\* C26 amended: the re-send is made when the login() returns; when it
\* raises, its exception is the caller's and nothing is re-sent.
C26_ReloginThenResendIfLoggedIn ==
  /\ [](/\ AuthedPlain
        /\ relogins <= 1 /\ resends <= relogins
        /\ (authed_pc = "done" /\ first_answer = 401 /\ authed_creds # <<>>) =>
              /\ relogins = 1
              /\ \/ ResentOnce
                 \/ resends = 0 /\ authed_out.ret = 0 /\ authed_out.exc # NoErr)
  /\ [][(authed_pc = "relogin" /\ authed_pc' = "done") =>
          \/ pc = "done" /\ resends' = 1 /\ UNCHANGED <<sessVars, callVars>>
          \/ pc = "failed" /\ resends' = 0 /\ authed_out'.exc = err
                /\ UNCHANGED <<sessVars, callVars>>]_vars

\* the login() of the authed call returned and the re-send was answered 401
C26_Witness ==
  /\ authed_pc = "done" /\ first_answer = 401 /\ authed_creds # <<>>
  /\ relogins = 1 /\ resends = 1 /\ resend_answer = 401 /\ pc = "done"
  /\ authed_out = [ret |-> 401, exc |-> Exc("HTTPStatusError", <<"send">>)]

\* the parts of the string that hold "=", by their index, and the trimmed
\* name and value of each
PairParts(raw) ==
  {i \in 1..Len(split(strip(raw), ";")) :
     index_of(split(strip(raw), ";")[i], "=") # 0}

PairAt(raw, i) ==
  <<strip(partition(strip(split(strip(raw), ";")[i]), "=")[1]),
    strip(partition(strip(split(strip(raw), ";")[i]), "=")[3])>>

NamesSession(raw) == \E i \in PairParts(raw) : PairAt(raw, i)[1] = NSSESSIONID

\* the cases of _parse_cookies but the Cookie string that names NSSESSIONID,
\* and what login_with_cookies does with an empty mapping
ParsedOtherwise ==
  /\ fullmatch_hex(strip(helper_arg)) => helper_ret = {<<NSSESSIONID, strip(helper_arg)>>}
  /\ (~fullmatch_hex(strip(helper_arg)) /\ ~NamesSession(helper_arg)) => helper_ret = {}
  /\ helper_ret # {} => \E p \in helper_ret : p[1] = NSSESSIONID
  /\ helper_ret = {} =>
        /\ call_pc = "done" /\ call_err.type = "LoginError"
        /\ cookies = {} /\ requests = 0

\* C31 as stated: a bare session id maps to {NSSESSIONID: id}; a Cookie
\* string yields all its trimmed name=value pairs if and only if one of the
\* names is NSSESSIONID; every other input yields the empty mapping, on which
\* login_with_cookies raises LoginError with the jar untouched and nothing
\* sent.
C31_ParseCookies ==
  call_pc \in {"request", "done"} =>
    /\ ParsedOtherwise
    /\ (~fullmatch_hex(strip(helper_arg)) /\ NamesSession(helper_arg)) =>
          helper_ret = {PairAt(helper_arg, i) : i \in PairParts(helper_arg)}

\* C31 amended: of the pairs of a Cookie string that repeat a name the
\* mapping keeps the last.
C31_ParseCookiesLastWins ==
  call_pc \in {"request", "done"} =>
    /\ ParsedOtherwise
    /\ (~fullmatch_hex(strip(helper_arg)) /\ NamesSession(helper_arg)) =>
          helper_ret =
            {PairAt(helper_arg, i) : i \in
               {k \in PairParts(helper_arg) :
                  \A j \in PairParts(helper_arg) :
                    j > k => PairAt(helper_arg, j)[1] # PairAt(helper_arg, k)[1]}}

\* "NSSESSIONID=a;a=" was parsed, its two cookies set and the request sent
C31_Witness ==
  /\ call_pc = "done" /\ requests = 1 /\ call_err = NoErr
  /\ helper_ret = {<<NSSESSIONID, <<"a">>>>, <<<<"a">>, <<>>>>}
  /\ cookies = helper_ret

\* the value a session store holds, encoded once or twice; NoDoc when the
\* text, or the text inside it, is no JSON
StoreData ==
  IF ~helper_arg.valid THEN NoDoc
  ELSE IF helper_arg.doc.kind # "str" THEN helper_arg.doc
  ELSE IF helper_arg.doc.body[1].valid THEN helper_arg.doc.body[1].doc
  ELSE NoDoc

\* the entries of a stored list that have a token, and the active ones of them
WithToken(items) ==
  {i \in 1..Len(items) : items[i].isdict /\ is_true(items[i].accessToken)}

ActiveWithToken(items) == {i \in WithToken(items) : is_true(items[i].active)}

\* tok is the token of the first entry of S
FirstTokenOf(items, S, tok) ==
  \E i \in S : (\A j \in S : i <= j) /\ tok = items[i].accessToken

\* C32: for a list the helper returns the accessToken of the first active
\* entry that has one, else that of the first entry having one; for an
\* object its accessToken, else its `at`; for invalid JSON, an empty list or
\* an empty object None; and on None login_with_session_store raises
\* LoginError with the Session as it was and nothing sent.
C32_SessionStoreToken ==
  call_pc \in {"request", "done"} =>
    /\ StoreData.kind = "list" =>
          IF ActiveWithToken(StoreData.body) # {}
          THEN FirstTokenOf(StoreData.body, ActiveWithToken(StoreData.body), helper_ret)
          ELSE IF WithToken(StoreData.body) # {}
          THEN FirstTokenOf(StoreData.body, WithToken(StoreData.body), helper_ret)
          ELSE helper_ret = "None"
    /\ StoreData.kind = "dict" =>
          /\ is_true(StoreData.body[1].accessToken) =>
                helper_ret = StoreData.body[1].accessToken
          /\ ~is_true(StoreData.body[1].accessToken) => helper_ret = StoreData.body[1].at
    /\ (\/ ~helper_arg.valid
        \/ StoreData = [kind |-> "list", body |-> <<>>]
        \/ /\ StoreData.kind = "dict"
           /\ StoreData.body[1].accessToken = "None" /\ StoreData.body[1].at = "None")
         => helper_ret = "None"
    /\ ~is_true(helper_ret) =>
          /\ call_pc = "done" /\ call_err.type = "LoginError" /\ requests = 0
          /\ access_token = 0 /\ at_header = 0 /\ student_id = -1 /\ cookies = {}
          /\ credentials = <<>> /\ ~keepalive_task
    /\ is_true(helper_ret) =>
          /\ call_err = NoErr /\ access_token = helper_ret /\ at_header = helper_ret

\* a list encoded twice whose second entry is the active one
C32_Witness ==
  /\ call_pc = "done" /\ requests = 1
  /\ helper_arg.doc.kind = "str" /\ StoreData.kind = "list" /\ Len(StoreData.body) = 2
  /\ StoreData.body[1].accessToken = "tok1" /\ ~is_true(StoreData.body[1].active)
  /\ StoreData.body[2].accessToken = "tok2" /\ is_true(StoreData.body[2].active)
  /\ helper_ret = "tok2" /\ access_token = "tok2"

\* the names that are the query but for case, and the names that hold it
SameName(query) == {i \in 1..Len(REGIONS) : lower(REGIONS[i][1]) = lower(query)}

Holding(query) ==
  {i \in 1..Len(REGIONS) : contains(lower(REGIONS[i][1]), lower(query))}

\* C33: get_url resolves a name without regard to case: the URL of the name
\* that is the query always wins, also when another name holds it;
\* otherwise the URL of the one name holding the query; with no name, with
\* several and for the empty string None, on which search_schools and
\* get_login_methods raise ValueError before any request.
C33_GetUrl ==
  (call_pc \in {"request", "done"} /\ ~startswith_http(helper_arg)) =>
    /\ \A i \in 1..Len(REGIONS) :
         (helper_arg = REGIONS[i][1] \/ i \in SameName(helper_arg)) =>
            helper_ret = REGIONS[i][2]
    /\ SameName(helper_arg) = {} =>
         /\ Cardinality(Holding(helper_arg)) = 1 =>
               \E i \in Holding(helper_arg) : helper_ret = REGIONS[i][2]
         /\ Cardinality(Holding(helper_arg)) # 1 => helper_ret = "None"
    /\ helper_arg = <<>> => helper_ret = "None"
    /\ helper_ret = "None" =>
         /\ call_pc = "done" /\ call_err.type = "ValueError" /\ requests = 0
    /\ helper_ret # "None" => call_err = NoErr

\* the name "Ab", which "Ab c" holds too, was resolved and the request sent
C33_Witness ==
  /\ call_pc = "done" /\ requests = 1 /\ op = "search_schools"
  /\ helper_arg = <<"a", "b">> /\ Cardinality(Holding(helper_arg)) = 2
  /\ helper_ret = "https://ab"

\* the state of the shared tail a position of a federated login is in:
\* 0 walking to the broker, 1 REACH_BROKER, 2 AUTH_SUBMITTED (and the branch
\* steps), 3 REDIRECT_READY, 4 CALLBACK_WALKED, 5 ORG_SELECTED,
\* 7 PORTAL_TOKEN_OBTAINED and SESSION_TRANSFERRED, which one step enters
Stage(p) ==
  CASE p \in {"gos_start", "qr_start"} -> 0
    [] p \in {"gos_login", "qr_generate", "qr_show", "qr_poll", "qr_rewalk"} -> 1
    [] p = "fed_resolve" -> 2
    [] p = "fed_callback" -> 3
    [] p \in {"fed_logindata", "fed_account_info"} -> 4
    [] p = "fed_idp" -> 5
    [] p \in {"fed_init", "finish_year", "finish_context", "finish_types",
              "tail_school", "done"} -> 7
    [] OTHER -> -1

\* C34: a federated login passes through the states of the shared tail in
\* their order, entering none unless the ones before succeeded: the
\* credentials or a QR request are sent only after a crosslogin walk that
\* ended on the broker, the organization is selected only with a loginState
\* extracted, and the Session is transferred only with the portal's token.
C34_FederatedOrder ==
  /\ []((op \in FedOps /\ pc # "failed") =>
          /\ pc \in {"gos_login", "qr_generate"} => crosslogin_end = "broker"
          /\ Stage(pc) >= 2 => (posts = 1 \/ subs # <<>>)
          /\ Stage(pc) >= 4 => login_state # 0
          /\ Stage(pc) <= 5 => copies = 0
          /\ Stage(pc) = 7 => (copies = 1 /\ access_token = g /\ login_state # 0))
  /\ [][(op \in FedOps /\ ops' = ops /\ pc' # "failed") =>
          \/ Stage(pc') = Stage(pc)
          \/ Stage(pc') = Stage(pc) + 1
          \/ Stage(pc) = 5 /\ Stage(pc') = 7]_vars

\* C35: for the SMS, TOTP and MAX types, the handler reports that no
\* verification endpoint was found only after it posted the code to more than
\* one endpoint shape: a 404 of the canonical endpoint alone does not end it.
C35_FallbackSearch ==
  rerr = Exc("MFAError", <<"no verify endpoint">>) => Len(tried_urls) >= 2

\* the poll loop has the turn
Polling == rpc = "push"

\* C36: push polling is bounded and tolerant. It sends at most max_wait/3
\* poll requests (40), each after a sleep of 3 seconds; a pass either sends
\* one poll and then returns (an answer with `redirect_url`), raises the
\* rejection error (an answer with `failed`) or polls again (anything else,
\* a network or parse error included), or, with the bound used up, raises
\* the timeout error without sending anything.
C36_PushPollingBounded ==
  /\ [](/\ polls <= push_max_wait \div push_interval
        /\ waited = push_interval * polls
        /\ rerr = Exc("MFAError", <<"push timeout">>)
             => polls = push_max_wait \div push_interval)
  /\ [][Polling =>
          \/ /\ polls' = polls + 1
             /\ waited' = waited + push_interval
             /\ \/ Polling'
                \/ rpc' \in {"returned", "resume"}
                \/ rpc' = "raised" /\ rerr' = Exc("MFAError", <<"push rejected">>)
          \/ /\ polls = push_max_wait \div push_interval
             /\ polls' = polls
             /\ rpc' = "raised"
             /\ rerr' = Exc("MFAError", <<"push timeout">>)]_vars

\* forty polls went unanswered and the timeout error was raised
C36_Witness ==
  /\ rpc = "raised"
  /\ rerr = Exc("MFAError", <<"push timeout">>)
  /\ polls = 40
  /\ waited = push_max_wait

\* an action the step driver has no branch for
UnknownAction(a) ==
  a \notin {"DONE", "MAX_QUIZ", "CHANGE_PASSWORD", "SOLVE_ANOMALY_REACTION"}

\* C37: a pass of the post-MFA step driver over an action it has no branch
\* for sends the "next step" query and nothing else; it then either fails
\* (with the protocol error when the answer repeats the action, never after a
\* second request) or goes on to the next pass with an answer whose action
\* differs. A pass over a MAX_QUIZ that cannot be skipped fails and sends
\* nothing.
C37_UnknownActionOneQuery ==
  [][rpc = "loop" /\ ~loop_exhausted(iter) =>
       /\ UnknownAction(data.action) =>
            /\ step_requests' = <<"next-step">>
            /\ \/ /\ rpc' = "raised"
                  /\ rerr' \in {Exc("ESIAError", <<"unknown step">>),
                                Exc("RequestError", <<"next-step">>)}
                  /\ data' = data
               \/ /\ rpc' = "loop"
                  /\ iter' = iter + 1
                  /\ data'.action # data.action
       /\ data.action = "MAX_QUIZ" /\ ~data.skippable =>
            /\ step_requests' = <<>>
            /\ rpc' = "raised"
            /\ rerr' = Exc("ESIAError", <<"MAX_QUIZ cannot be skipped">>)]_vars

\* the driver went on after one unknown action and failed on the repeated
\* second one, having sent one query in that pass
C37_Witness ==
  /\ rpc = "raised"
  /\ rerr = Exc("ESIAError", <<"unknown step">>)
  /\ UnknownAction(data.action)
  /\ step_requests = <<"next-step">>
  /\ iter >= 1

\* the names of the cookies the Identity Broker's hosts set
BrokerCookieNames == {h[1] : h \in {x \in SetCookieHeaders : x[2] = "esia"}}

\* C38: Session Transfer copies the cookies of the external jar whose domain
\* is empty or the portal's, and with them no cookie an Identity Broker host
\* issued: after the transfer of a federated login the main jar holds no
\* broker cookie it did not hold before the call.
C38_NoBrokerCookieInMainJar ==
  op \in FedOps /\ copies = 1 =>
    \A c \in cookies \ pre.cookies : c[1] \notin BrokerCookieNames

\* C39: the credentials are kept only by login(): when any other login
\* procedure has returned, the client holds none, so that a later 401 raises
\* SessionExpired and starts no login with credentials of an earlier call.
C39_CredentialsOnlyAfterLogin ==
  (pc = "done" /\ op # "login") => credentials = <<>>

\* a pass of the keep-alive loop sent its ping
PingStep == ping_log' # ping_log

\* C40: a keep-alive ping is fire-and-forget. Whatever it is answered (200,
\* 401, ServerUnavailable), the task that sent it stays alive, so it pings
\* again; the ping starts no login, neither a call of a login procedure nor
\* the re-login of an authed call, and leaves access_token, student_id,
\* year_id, school_id and the credentials as they were, wherever the caller's
\* own operations stand.
C40_PingFireAndForget ==
  [][PingStep =>
       /\ tasks' = tasks /\ tasks' >= 1
       /\ keepalive_task' = keepalive_task
       /\ <<op, pc, ops, err>>' = <<op, pc, ops, err>>
       /\ <<authed_pc, relogins, resends>>' = <<authed_pc, relogins, resends>>
       /\ <<access_token, student_id, year_id, school_id, credentials>>'
            = <<access_token, student_id, year_id, school_id, credentials>>]_vars

\* on a client that holds credentials a ping was answered 401 and the next
\* one failed with ServerUnavailable: the task is alive and no login ran but
\* the caller's
C40_Witness ==
  /\ ping_log = <<401, 0>>
  /\ tasks = 1 /\ keepalive_task
  /\ pc = "done" /\ ops = 1 /\ credentials # <<>>
  /\ relogins = 0

=============================================================================
